---- MODULE Spec2Model ----
(***************************************************************************)
(* PlaywrightService (src/services/playwrightService.js): analyzeUrl and   *)
(* the two loops it drives, takeScreenshots and performEvaluation, over    *)
(* the criterion registry of src/config/evaluationCriteria.js.             *)
(* The controller's two handlers, POST /analyze and analyzeBatch, call it   *)
(* and answer through the error-handling middleware.                       *)
(*                                                                         *)
(* Calls into Playwright, the storage service and the criteria's check     *)
(* functions are the environment: each call either returns or throws, and  *)
(* the model takes every outcome.                                          *)
(***************************************************************************)
EXTENDS Integers, Sequences, FiniteSets, TLC

VARIABLES
    pc,            \* position of the running call
    entry,         \* the method the caller invoked
    isInitialized, \* PlaywrightService.isInitialized
    browser,       \* PlaywrightService.browser ("null" or "browser")
    context,       \* the run's browser context: "none", "open", "closed"
    options,       \* analyzeUrl's options argument
    viewports,     \* analyzeUrl's / takeScreenshots' viewports argument
    registry,      \* evaluationCriteria: category -> sequence of criteria
    pageViewport,  \* the page's current viewport size
    vpIdx,         \* takeScreenshots: number of loop iterations finished
    screenshots,   \* takeScreenshots: the screenshots array
    shotLog,       \* history: outcome of each viewport attempt
    critIdx,       \* performEvaluation: number of loop iterations finished
    results,       \* performEvaluation: the results array
    totalItems,    \* performEvaluation: let totalItems
    passedItems,   \* performEvaluation: let passedItems
    checkLog,      \* history: each criterion.check call and how it ended
    analysis,      \* performEvaluation's return value (<<>> until it returns)
    performance,   \* getPerformanceMetrics' return value
    ret,           \* analyzeUrl's return value (<<>> until it returns)
    error,         \* the AppError analyzeUrl threw (NoError until it throws)
    response,      \* analyzeUrl: const response, what page.goto resolved with
    calc,          \* inputs and output of the score expression taken alone
    navigation,    \* history: how page.goto settled
    waits,         \* history: how the selector wait and the idle wait settled
    pageDom,       \* the page's document: injected scripts and styles, loads
    inFlight,      \* performEvaluation: criteria whose check is awaited
    faults,        \* how many more checks the page lets end other than pass
    request,       \* controller: req.body of the request being handled
    reply,         \* controller: the HTTP response sent (<<>> until it is sent)
    urlCount,      \* analyzeBatch: urls.length
    chunkBase,     \* analyzeBatch: index before the first URL of the current chunk
    running,       \* analyzeBatch: URLs whose analyzeUrl promise is pending
    calls,         \* history: how often analyzeUrl was called for each URL
    batchResults,  \* analyzeBatch: const results
    batchErrors,   \* analyzeBatch: const errors
    reportLog,     \* history: how the controller's report generation went
    callers,       \* concurrent callers of the service: where each one stands
    live,          \* browser processes launched and not closed
    launches,      \* history: how often chromium.launch resolved
    runs,          \* history: performEvaluation calls begun after the first one
    raised         \* history: the error raised inside analyzeUrl's try block

vars == <<pc, entry, isInitialized, browser, context, options, viewports, registry,
          pageViewport, vpIdx, screenshots, shotLog, critIdx, results, totalItems,
          passedItems, checkLog, analysis, performance, ret, error, response, calc,
          navigation, waits, pageDom, inFlight, faults, request, reply,
          urlCount, chunkBase, running, calls, batchResults, batchErrors,
          reportLog, callers, live, launches, runs, raised>>

controllerVars == <<request, reply, reportLog>>

lifecycleVars == <<callers, live, launches, runs, raised>>

batchVars == <<urlCount, chunkBase, running, calls, batchResults, batchErrors>>

----------------------------------------------------------------------------
(* Bounds of the model *)

\* performEvaluation taken alone: most criteria in a registry
MaxCriteria == 3
\* takeScreenshots taken alone: longest caller-supplied viewport list
MaxViewports == 2
\* analyzeUrl: most criteria in a registry, longest viewport list
FlowMaxCriteria == 1
FlowMaxViewports == 1
\* the score expression taken alone: largest totalItems
MaxTotal == 67
\* performEvaluation over the full registry: most checks not ending with pass
MaxFaults == 1
\* analyzeBatch: longest urls array that is analysed
MaxUrls == 6
\* performEvaluation calls that follow the first one
MaxReruns == 1
\* concurrent callers of the service, and browser launches they may start
MaxCallers == 3
MaxLaunches == 2

(* Program constants *)
DefaultTimeout == 30000
MantissaBits == 53

Null == "null"
Undefined == "undefined"

----------------------------------------------------------------------------
(* IEEE-754 double arithmetic of the score expression.  A positive double  *)
(* is [m, e]: m the 53 mantissa bits, least significant first, and the     *)
(* value is m * 2^e.  Wide integers are cut into 18-bit limbs.             *)

RECURSIVE BitsToInt(_)
BitsToInt(a) == IF a = <<>> THEN 0 ELSE Head(a) + 2 * BitsToInt(Tail(a))

\* the w low bits of n, least significant first
Bits(n, w) == [i \in 1..w |-> (n \div 2^(i - 1)) % 2]

BitWidth(n) == CHOOSE w \in 0..30 : n < 2^w /\ (w = 0 \/ n >= 2^(w - 1))

Zeros(n) == [i \in 1..n |-> 0]

Increment(b) ==
    IF \A i \in 1..Len(b) : b[i] = 1
    THEN Zeros(Len(b)) \o <<1>>
    ELSE LET j == CHOOSE j \in 1..Len(b) : b[j] = 0 /\ \A i \in 1..(j - 1) : b[i] = 1
         IN  [i \in 1..Len(b) |-> IF i < j THEN 0 ELSE IF i = j THEN 1 ELSE b[i]]

\* round-to-nearest-even of the bit string p (and a sticky rest below it) to
\* MantissaBits bits; [m, shift]: the value is m * 2^shift
RoundToMantissa(p, sticky) ==
    LET L == Len(p)
        d == L - MantissaBits
    IN  IF d <= 0
        THEN [m |-> Zeros(0 - d) \o p, shift |-> d]
        ELSE LET guard == p[d]
                 low   == sticky \/ \E i \in 1..(d - 1) : p[i] = 1
                 kept  == SubSeq(p, d + 1, L)
                 up    == guard = 1 /\ (low \/ kept[1] = 1)
                 r     == IF up THEN Increment(kept) ELSE kept
             IN  IF Len(r) > MantissaBits
                 THEN [m |-> Tail(r), shift |-> d + 1]
                 ELSE [m |-> r, shift |-> d]

\* the least k with p * 2^k >= t
NormShift(p, t) == CHOOSE k \in 0..30 : p * 2^k >= t /\ (k = 0 \/ p * 2^(k - 1) < t)

\* the double nearest to p / t, for 0 < p <= t: long division, 18 bits a step
FDiv(p, t) ==
    LET k  == NormShift(p, t)
        r0 == p * 2^k - t
        q1 == (r0 * 2^18) \div t
        r1 == (r0 * 2^18) % t
        q2 == (r1 * 2^18) \div t
        r2 == (r1 * 2^18) % t
        q3 == (r2 * 2^18) \div t
        r3 == (r2 * 2^18) % t
        full == Bits(q3, 18) \o Bits(q2, 18) \o Bits(q1, 18) \o <<1>>
        rd == RoundToMantissa(full, r3 > 0)
    IN  [m |-> rd.m, e |-> rd.shift - 54 - k]

\* the double nearest to x * 100
FMul100(x) ==
    LET lo  == BitsToInt(SubSeq(x.m, 1, 18)) * 100
        mid == BitsToInt(SubSeq(x.m, 19, 36)) * 100 + lo \div 2^18
        hi  == BitsToInt(SubSeq(x.m, 37, MantissaBits)) * 100 + mid \div 2^18
        p   == Bits(lo % 2^18, 18) \o Bits(mid % 2^18, 18) \o Bits(hi, BitWidth(hi))
        rd  == RoundToMantissa(p, FALSE)
    IN  [m |-> rd.m, e |-> x.e + rd.shift]

\* Math.round of a positive double below 2^30: nearest integer, a half rounds up
MathRound(x) ==
    LET f == 0 - x.e
        n == Len(x.m)
    IN  IF f <= 0 THEN BitsToInt(x.m) * 2^(x.e)
        ELSE IF f > n THEN 0
        ELSE BitsToInt(SubSeq(x.m, f + 1, n)) + x.m[f]

\* const score = totalItems > 0 ? Math.round((passedItems / totalItems) * 100) : 0
Score(passedItems_, totalItems_) ==
    IF totalItems_ > 0
    THEN (IF passedItems_ = 0 THEN 0
          ELSE MathRound(FMul100(FDiv(passedItems_, totalItems_))))
    ELSE 0

----------------------------------------------------------------------------
(* The criterion registry *)

\* Object.entries order of fullEvaluationCriteria
Categories == <<"accessibility", "performance", "seo", "security", "usability">>

CategorySet == {Categories[i] : i \in 1..Len(Categories)}

IdPrefix(category) ==
    CASE category = "accessibility" -> "a11y"
      [] category = "performance"   -> "perf"
      [] category = "seo"           -> "seo"
      [] category = "security"      -> "sec"
      [] category = "usability"     -> "use"

\* the k-th criterion declared under a category
Criterion(category, k) ==
    [id     |-> IdPrefix(category) \o (IF k < 10 THEN "-00" ELSE "-0") \o ToString(k),
     name   |-> "criterion " \o IdPrefix(category) \o ToString(k),
     impact |-> IF k = 1 THEN "critical" ELSE "major"]

RegistryOf(sizes) ==
    [c \in CategorySet |-> [k \in 1..sizes[c] |-> Criterion(c, k)]]

RECURSIVE SumSizes(_, _)
SumSizes(sizes, i) ==
    IF i > Len(Categories) THEN 0 ELSE sizes[Categories[i]] + SumSizes(sizes, i + 1)

\* criteria per category in evaluationCriteria.js and in the extended file
BaseSizes ==
    [c \in CategorySet |->
        CASE c = "accessibility" -> 5 [] c = "performance" -> 3 [] c = "seo" -> 2
          [] c = "security" -> 2 [] c = "usability" -> 2]

ExtendedSizes ==
    [c \in CategorySet |->
        CASE c = "accessibility" -> 10 [] c = "performance" -> 5 [] c = "seo" -> 2
          [] c = "security" -> 1 [] c = "usability" -> 1]

\* [...baseEvaluationCriteria.<category>, ...extendedCriteria.<category>]
FullEvaluationCriteria ==
    RegistryOf([c \in CategorySet |-> BaseSizes[c] + ExtendedSizes[c]])

\* every registry of at most max criteria
Registries(max) ==
    {RegistryOf(sizes) : sizes \in {z \in [CategorySet -> 0..max] : SumSizes(z, 1) <= max}}

\* the order in which the two nested for-loops visit the criteria
RECURSIVE EntriesFrom(_, _)
EntriesFrom(reg, i) ==
    IF i > Len(Categories) THEN <<>>
    ELSE [k \in 1..Len(reg[Categories[i]]) |->
              [category |-> Categories[i], criterion |-> reg[Categories[i]][k]]]
         \o EntriesFrom(reg, i + 1)

Entries(reg) == EntriesFrom(reg, 1)

\* what one call of criterion.check can do: return a CheckOutcome after some
\* milliseconds, or throw
CheckOutcomes ==
    { [threw |-> FALSE, status |-> "pass", details |-> "ok",
       hasRecommendations |-> TRUE, recommendations |-> <<>>, elapsed |-> 0],
      [threw |-> FALSE, status |-> "fail", details |-> "missing",
       hasRecommendations |-> TRUE, recommendations |-> <<"fix it">>, elapsed |-> 12],
      [threw |-> FALSE, status |-> "warning", details |-> "could not check",
       hasRecommendations |-> FALSE, recommendations |-> <<>>, elapsed |-> 12],
      [threw |-> FALSE, status |-> "info", details |-> "not applicable",
       hasRecommendations |-> FALSE, recommendations |-> <<>>, elapsed |-> 3],
      [threw |-> TRUE, status |-> Undefined, details |-> "page closed",
       hasRecommendations |-> FALSE, recommendations |-> <<>>, elapsed |-> 7] }

\* the one check whose body is a try/catch of its own
CatchesOwnErrors(id) == id = "a11y-001"

OutcomesOf(id) ==
    IF CatchesOwnErrors(id) THEN {o \in CheckOutcomes : ~o.threw} ELSE CheckOutcomes

\* a page just loaded
FreshDom == [scripts |-> 0, styles |-> 0, loads |-> 1]

MobileViewport == [width |-> 375, height |-> 667]

\* what a check does to the page besides reading it: addScriptTag (a11y-001),
\* addStyleTag (a11y-013), page.goto (perf-005, sec-002), setViewportSize
\* (use-001)
CheckEffect(id) ==
    CASE id = "a11y-001" -> "script"
      [] id = "a11y-013" -> "style"
      [] id \in {"perf-005", "sec-002"} -> "navigate"
      [] id = "use-001" -> "viewport"
      [] OTHER -> "none"

\* whether the mutating call of the check went through: always when the check
\* returned its verdict, either way when it threw (or caught its own error)
EffectChoices(id, result) ==
    IF CheckEffect(id) = "none" THEN {FALSE}
    ELSE IF result.threw \/ (CatchesOwnErrors(id) /\ result.status = "warning")
         THEN BOOLEAN
    ELSE {TRUE}

ViewportAfter(id, viewport, applied) ==
    IF applied /\ CheckEffect(id) = "viewport" THEN MobileViewport ELSE viewport

DomAfter(id, dom, applied) ==
    IF ~applied THEN dom
    ELSE CASE CheckEffect(id) = "script" -> [dom EXCEPT !.scripts = @ + 1]
           [] CheckEffect(id) = "style" -> [dom EXCEPT !.styles = @ + 1]
           [] CheckEffect(id) = "navigate" ->
                  [scripts |-> 0, styles |-> 0, loads |-> dom.loads + 1]
           [] OTHER -> dom

\* const evaluationResult = { category, id: criterion.id, ..., checkTime }
EvaluationResult(category, criterion, result) ==
    [category |-> category, id |-> criterion.id, name |-> criterion.name,
     impact |-> criterion.impact, status |-> result.status,
     details |-> result.details,
     recommendations |-> IF result.hasRecommendations
                         THEN result.recommendations ELSE <<>>,
     checkTime |-> result.elapsed]

ErrorResultTimed(category, criterion, result) ==
    [category |-> category, id |-> criterion.id, name |-> criterion.name,
     impact |-> criterion.impact, status |-> "error",
     details |-> "Evaluation failed: " \o result.details,
     recommendations |-> <<>>,
     checkTime |-> result.elapsed]

\* the object pushed by the catch block
ErrorResult(category, criterion, result) ==
    [category |-> category, id |-> criterion.id, name |-> criterion.name,
     impact |-> criterion.impact, status |-> "error",
     details |-> "Evaluation failed: " \o result.details,
     recommendations |-> <<"Unable to evaluate - check page accessibility">>,
     checkTime |-> 0]

PassedAfterCountsWarnings(passedItems_, result) ==
    IF result.status \in {"pass", "warning"} THEN passedItems_ + 1 ELSE passedItems_

\* if (result.status === 'pass') { passedItems++; }
PassedAfter(passedItems_, result) ==
    IF result.status = "pass" THEN passedItems_ + 1 ELSE passedItems_

\* a count that skips the results of thrown checks
CountCategorySkipsErrors(results_, category) ==
    Cardinality({i \in 1..Len(results_) :
                    results_[i].category = category /\ results_[i].status # "error"})

\* results.filter(r => r.category === category).length
CountCategory(results_, category) ==
    Cardinality({i \in 1..Len(results_) : results_[i].category = category})

SummaryFailedOnlyFailStatus(results_, totalItems_, passedItems_) ==
    [total  |-> totalItems_,
     passed |-> passedItems_,
     failed |-> Cardinality({i \in 1..Len(results_) : results_[i].status = "fail"}),
     score  |-> Score(passedItems_, totalItems_),
     categories |-> [c \in CategorySet |-> CountCategory(results_, c)]]

\* summary: { total, passed, failed, score, categories }
Summary(results_, totalItems_, passedItems_) ==
    [total  |-> totalItems_,
     passed |-> passedItems_,
     failed |-> totalItems_ - passedItems_,
     score  |-> Score(passedItems_, totalItems_),
     categories |-> [c \in CategorySet |-> CountCategory(results_, c)]]

----------------------------------------------------------------------------
(* takeScreenshots *)

DefaultViewports ==
    << [name |-> "mobile",  width |-> 375,  height |-> 667],
       [name |-> "tablet",  width |-> 768,  height |-> 1024],
       [name |-> "desktop", width |-> 1920, height |-> 1080],
       [name |-> "4k",      width |-> 3840, height |-> 2160] >>

\* viewports a caller may ask for
ViewportPool ==
    { [name |-> "laptop", width |-> 1366, height |-> 768],
      [name |-> "phone",  width |-> 320,  height |-> 568] }

RECURSIVE SeqsUpTo(_, _)
SeqsUpTo(S, n) ==
    IF n = 0 THEN {<<>>}
    ELSE LET shorter == SeqsUpTo(S, n - 1)
         IN  shorter \cup {Append(q, x) : q \in {r \in shorter : Len(r) = n - 1}, x \in S}

\* the viewport a fresh page has
InitialViewport == [width |-> 1280, height |-> 720]

AnalysisId == "id-1"

TargetViewportsAlwaysDefault(viewports_) == DefaultViewports

\* const targetViewports = viewports.length > 0 ? viewports : defaultViewports
TargetViewports(viewports_) ==
    IF Len(viewports_) > 0 THEN viewports_ ELSE DefaultViewports

\* what one pass through the loop body can meet: setViewportSize throws,
\* screenshot throws, uploadScreenshot rejects, or all three succeed and the
\* image has some number of bytes
ShotOutcomes ==
    { [stage |-> "resize",  size |-> 0, message |-> "setViewportSize: Target closed"],
      [stage |-> "capture", size |-> 0, message |-> "screenshot: Protocol error"],
      [stage |-> "upload",  size |-> 8192, message |-> "Screenshot upload failed"] }
    \cup { [stage |-> "ok", size |-> n, message |-> ""] : n \in {8192, 65536} }

Filename(analysisId, viewport) ==
    "screenshots/" \o analysisId \o "-" \o viewport.name \o ".png"

\* gcsService.uploadScreenshot resolves with gs://<bucket>/<filename>
GcsUrl(filename) == "gs://claude-dify-checker-bucket/" \o filename

\* the object pushed at the end of the try block
ShotSuccess(viewport, outcome) ==
    [viewport |-> viewport.name, width |-> viewport.width, height |-> viewport.height,
     gcs_url |-> GcsUrl(Filename(AnalysisId, viewport)),
     size_bytes |-> outcome.size,
     filename |-> Filename(AnalysisId, viewport),
     error |-> Undefined]

\* the catch block reporting the bytes captured before the upload failed
ShotFailureKeepsSize(viewport, outcome) ==
    [viewport |-> viewport.name, width |-> viewport.width, height |-> viewport.height,
     gcs_url |-> Null,
     size_bytes |-> outcome.size,
     filename |-> Undefined,
     error |-> outcome.message]

\* the object pushed by the catch block
ShotFailure(viewport, outcome) ==
    [viewport |-> viewport.name, width |-> viewport.width, height |-> viewport.height,
     gcs_url |-> Null,
     size_bytes |-> 0,
     filename |-> Undefined,
     error |-> outcome.message]

\* the loop body with a catch block that gives up on the remaining viewports
TakeShotStopsAtFailure ==
    /\ pc = "screenshots"
    /\ vpIdx < Len(TargetViewports(viewports))
    /\ \E outcome \in ShotOutcomes :
          LET viewport == TargetViewports(viewports)[vpIdx + 1]
          IN  /\ pageViewport' = IF outcome.stage = "resize" THEN pageViewport
                                 ELSE [width |-> viewport.width, height |-> viewport.height]
              /\ screenshots' = Append(screenshots,
                                       IF outcome.stage = "ok"
                                       THEN ShotSuccess(viewport, outcome)
                                       ELSE ShotFailure(viewport, outcome))
              /\ shotLog' = Append(shotLog, [viewport |-> viewport, stage |-> outcome.stage,
                                             size |-> outcome.size, dom |-> pageDom])
              /\ vpIdx' = IF outcome.stage = "ok" THEN vpIdx + 1
                          ELSE Len(TargetViewports(viewports))
    /\ UNCHANGED <<lifecycleVars, controllerVars, batchVars, navigation, waits, pageDom,
                   inFlight,
                   faults, pc, entry, isInitialized, browser, context, options, viewports,
                   registry, critIdx, results, totalItems, passedItems, checkLog,
                   analysis, performance, ret, error, response, calc>>

\* the loop body trying a viewport again after a failed attempt
TakeShotRetriesFailure ==
    /\ pc = "screenshots"
    /\ vpIdx < Len(TargetViewports(viewports))
    /\ \E outcome \in ShotOutcomes :
          LET viewport == TargetViewports(viewports)[vpIdx + 1]
          IN  /\ pageViewport' = IF outcome.stage = "resize" THEN pageViewport
                                 ELSE [width |-> viewport.width, height |-> viewport.height]
              /\ screenshots' = IF outcome.stage = "ok"
                                THEN Append(screenshots, ShotSuccess(viewport, outcome))
                                ELSE screenshots
              /\ shotLog' = Append(shotLog, [viewport |-> viewport, stage |-> outcome.stage,
                                             size |-> outcome.size, dom |-> pageDom])
              /\ vpIdx' = IF outcome.stage = "ok" THEN vpIdx + 1 ELSE vpIdx
    /\ UNCHANGED <<lifecycleVars, controllerVars, batchVars, navigation, waits, pageDom,
                   inFlight,
                   faults, pc, entry, isInitialized, browser, context, options, viewports,
                   registry, critIdx, results, totalItems, passedItems, checkLog,
                   analysis, performance, ret, error, response, calc>>

\* one iteration of: for (const viewport of targetViewports) { try {...} catch {...} }
TakeShot ==
    /\ pc = "screenshots"
    /\ vpIdx < Len(TargetViewports(viewports))
    /\ \E outcome \in ShotOutcomes :
          LET viewport == TargetViewports(viewports)[vpIdx + 1]
          IN  /\ pageViewport' = IF outcome.stage = "resize" THEN pageViewport
                                 ELSE [width |-> viewport.width, height |-> viewport.height]
              /\ screenshots' = Append(screenshots,
                                       IF outcome.stage = "ok"
                                       THEN ShotSuccess(viewport, outcome)
                                       ELSE ShotFailure(viewport, outcome))
              /\ shotLog' = Append(shotLog, [viewport |-> viewport, stage |-> outcome.stage,
                                             size |-> outcome.size, dom |-> pageDom])
    /\ vpIdx' = vpIdx + 1
    /\ UNCHANGED <<lifecycleVars, controllerVars, batchVars, navigation, waits, pageDom,
                   inFlight,
                   faults, pc, entry, isInitialized, browser, context, options, viewports,
                   registry, critIdx, results, totalItems, passedItems, checkLog,
                   analysis, performance, ret, error, response,
                   calc>>

\* the evaluation begun without waiting for the remaining viewports
ShotsReturnEarly ==
    /\ pc = "screenshots"
    /\ vpIdx <= Len(TargetViewports(viewports))
    /\ pc' = IF entry \in {"analyzeUrl", "postAnalyze"} THEN "evaluation" ELSE "done"
    /\ UNCHANGED <<lifecycleVars, controllerVars, batchVars, navigation, waits, pageDom,
                   inFlight,
                   faults, entry, isInitialized, browser, context, options, viewports, registry,
                   pageViewport, vpIdx, screenshots, shotLog, critIdx, results,
                   totalItems, passedItems, checkLog, analysis, performance, ret,
                   error, response,
                   calc>>

\* return screenshots
ShotsReturn ==
    /\ pc = "screenshots"
    /\ vpIdx = Len(TargetViewports(viewports))
    /\ pc' = IF entry \in {"analyzeUrl", "postAnalyze"} THEN "evaluation" ELSE "done"
    /\ UNCHANGED <<lifecycleVars, controllerVars, batchVars, navigation, waits, pageDom,
                   inFlight,
                   faults, entry, isInitialized, browser, context, options, viewports, registry,
                   pageViewport, vpIdx, screenshots, shotLog, critIdx, results,
                   totalItems, passedItems, checkLog, analysis, performance, ret,
                   error, response,
                   calc>>

----------------------------------------------------------------------------
(* performEvaluation *)

\* the loop calling the next check without awaiting the one before
EvalCheckStartNoAwait ==
    /\ pc = "evaluation"
    /\ totalItems < Len(Entries(registry))
    /\ totalItems' = totalItems + 1
    /\ inFlight' = inFlight \cup {totalItems + 1}
    /\ UNCHANGED <<lifecycleVars, controllerVars, batchVars, navigation, waits, pageDom,
                   faults, pc,
                   entry, isInitialized, browser, context, options, viewports, registry,
                   pageViewport, vpIdx, screenshots, shotLog, critIdx, results,
                   passedItems, checkLog, analysis, performance, ret, error, response,
                   calc>>

\* the head of one iteration of the inner for-loop: totalItems++ and the call
\* of criterion.check(page), which the loop awaits
EvalCheckStart ==
    /\ pc = "evaluation"
    /\ critIdx < Len(Entries(registry))
    /\ inFlight = {}
    /\ totalItems' = totalItems + 1
    /\ inFlight' = {critIdx + 1}
    /\ UNCHANGED <<lifecycleVars, controllerVars, batchVars, navigation, waits, pageDom,
                   faults, pc,
                   entry, isInitialized, browser, context, options, viewports, registry,
                   pageViewport, vpIdx, screenshots, shotLog, critIdx, results,
                   passedItems, checkLog, analysis, performance, ret, error, response,
                   calc>>

\* the rest of the loop body without its catch block: a throwing check ends the
\* method
EvalCheckRethrows ==
    /\ pc = "evaluation"
    /\ \E i \in inFlight :
          LET e == Entries(registry)[i]
              id == e.criterion.id
          IN  \E result \in OutcomesOf(id) :
              \E applied \in EffectChoices(id, result) :
                  /\ result.status = "pass" \/ faults > 0
                  /\ faults' = IF result.status = "pass" THEN faults ELSE faults - 1
                  /\ results' = IF result.threw THEN results
                                ELSE Append(results,
                                            EvaluationResult(e.category, e.criterion,
                                                             result))
                  /\ passedItems' = IF result.threw THEN passedItems
                                    ELSE PassedAfter(passedItems, result)
                  /\ pageViewport' = ViewportAfter(id, pageViewport, applied)
                  /\ pageDom' = DomAfter(id, pageDom, applied)
                  /\ checkLog' = Append(checkLog,
                                        [id |-> id,
                                         timing |-> id = "perf-001",
                                         threw |-> result.threw,
                                         before |-> [viewport |-> pageViewport,
                                                     dom |-> pageDom],
                                         after |-> [viewport |-> pageViewport',
                                                    dom |-> pageDom']])
                  /\ pc' = IF result.threw THEN "escaped" ELSE pc
                  /\ inFlight' = inFlight \ {i}
    /\ critIdx' = critIdx + 1
    /\ UNCHANGED <<lifecycleVars, controllerVars, batchVars, navigation, waits, entry,
                   isInitialized,
                   browser, context, options, viewports, registry, vpIdx, screenshots,
                   shotLog, totalItems, analysis, performance, ret, error, response,
                   calc>>

\* the rest of the loop body with a catch block that only logs
EvalCheckDropsThrown ==
    /\ pc = "evaluation"
    /\ \E i \in inFlight :
          LET e == Entries(registry)[i]
              id == e.criterion.id
          IN  \E result \in OutcomesOf(id) :
              \E applied \in EffectChoices(id, result) :
                  /\ result.status = "pass" \/ faults > 0
                  /\ faults' = IF result.status = "pass" THEN faults ELSE faults - 1
                  /\ results' = IF result.threw THEN results
                                ELSE Append(results,
                                            EvaluationResult(e.category, e.criterion,
                                                             result))
                  /\ passedItems' = IF result.threw THEN passedItems
                                    ELSE PassedAfter(passedItems, result)
                  /\ pageViewport' = ViewportAfter(id, pageViewport, applied)
                  /\ pageDom' = DomAfter(id, pageDom, applied)
                  /\ checkLog' = Append(checkLog,
                                        [id |-> id,
                                         timing |-> id = "perf-001",
                                         threw |-> result.threw,
                                         before |-> [viewport |-> pageViewport,
                                                     dom |-> pageDom],
                                         after |-> [viewport |-> pageViewport',
                                                    dom |-> pageDom']])
                  /\ inFlight' = inFlight \ {i}
    /\ critIdx' = critIdx + 1
    /\ UNCHANGED <<lifecycleVars, controllerVars, batchVars, navigation, waits, pc,
                   entry, isInitialized,
                   browser, context, options, viewports, registry, vpIdx, screenshots,
                   shotLog, totalItems, analysis, performance, ret, error, response,
                   calc>>

\* the rest of the iteration, once the awaited check has settled: the try block
\* after the call, or the catch block
EvalCheck ==
    /\ pc = "evaluation"
    /\ \E i \in inFlight :
          LET e == Entries(registry)[i]
              id == e.criterion.id
          IN  \E result \in OutcomesOf(id) :
              \E applied \in EffectChoices(id, result) :
                  /\ result.status = "pass" \/ faults > 0
                  /\ faults' = IF result.status = "pass" THEN faults ELSE faults - 1
                  /\ results' = Append(results,
                                       IF result.threw
                                       THEN ErrorResult(e.category, e.criterion, result)
                                       ELSE EvaluationResult(e.category, e.criterion,
                                                             result))
                  /\ passedItems' = IF result.threw THEN passedItems
                                    ELSE PassedAfter(passedItems, result)
                  /\ pageViewport' = ViewportAfter(id, pageViewport, applied)
                  /\ pageDom' = DomAfter(id, pageDom, applied)
                  /\ checkLog' = Append(checkLog,
                                        [id |-> id,
                                         timing |-> id = "perf-001",
                                         threw |-> result.threw,
                                         before |-> [viewport |-> pageViewport,
                                                     dom |-> pageDom],
                                         after |-> [viewport |-> pageViewport',
                                                    dom |-> pageDom']])
                  /\ inFlight' = inFlight \ {i}
    /\ critIdx' = critIdx + 1
    /\ UNCHANGED <<lifecycleVars, controllerVars, batchVars, navigation, waits, pc,
                   entry, isInitialized,
                   browser, context, options, viewports, registry, vpIdx, screenshots,
                   shotLog, totalItems, analysis, performance, ret, error, response,
                   calc>>

\* the score, the summary and the return after the loops
EvalReturn ==
    /\ pc = "evaluation"
    /\ critIdx = Len(Entries(registry))
    /\ analysis' = << [items |-> results,
                       summary |-> Summary(results, totalItems, passedItems)] >>
    /\ pc' = IF entry \in {"analyzeUrl", "postAnalyze"} THEN "metrics" ELSE "done"
    /\ UNCHANGED <<lifecycleVars, controllerVars, batchVars, navigation, waits, pageDom,
                   inFlight,
                   faults, entry, isInitialized, browser, context, options, viewports, registry,
                   pageViewport, vpIdx, screenshots, shotLog, critIdx, results,
                   totalItems, passedItems, checkLog, performance, ret, error, response,
                   calc>>

\* a later call with counters kept on the service instead of in the call
PerformEvaluationKeepsCounters ==
    /\ entry = "performEvaluation"
    /\ pc = "done"
    /\ runs < MaxReruns
    /\ runs' = runs + 1
    /\ results' = <<>>
    /\ critIdx' = 0 /\ checkLog' = <<>> /\ analysis' = <<>>
    /\ pageViewport' = InitialViewport /\ pageDom' = FreshDom
    /\ faults' = MaxFaults
    /\ pc' = "evaluation"
    /\ UNCHANGED <<callers, live, launches, raised, controllerVars, batchVars,
                   navigation, waits,
                   inFlight, entry, isInitialized, browser, context, options,
                   viewports, registry, vpIdx, screenshots, shotLog, totalItems,
                   passedItems, performance, ret, error, response, calc>>

\* a later call of performEvaluation, on the page of a later analyzeUrl call:
\* const results = []; let totalItems = 0; let passedItems = 0
PerformEvaluation ==
    /\ entry = "performEvaluation"
    /\ pc = "done"
    /\ runs < MaxReruns
    /\ runs' = runs + 1
    /\ results' = <<>> /\ totalItems' = 0 /\ passedItems' = 0
    /\ critIdx' = 0 /\ checkLog' = <<>> /\ analysis' = <<>>
    /\ pageViewport' = InitialViewport /\ pageDom' = FreshDom
    /\ faults' = MaxFaults
    /\ pc' = "evaluation"
    /\ UNCHANGED <<callers, live, launches, raised, controllerVars, batchVars,
                   navigation, waits,
                   inFlight, entry, isInitialized, browser, context, options,
                   viewports, registry, vpIdx, screenshots, shotLog, performance,
                   ret, error, response, calc>>

----------------------------------------------------------------------------
(* analyzeUrl *)

TargetUrl == "https://example.com"

\* new AppError(message, statusCode, code); timeout is details.timeout, 0 when
\* the details carry none
AppError(message, statusCode, code, timeout) ==
    [isAppError |-> TRUE, message |-> message, statusCode |-> statusCode, code |-> code,
     timeout |-> timeout]

\* an Error thrown by Playwright; the message is its sequence of words
PlainError(message) ==
    [isAppError |-> FALSE, message |-> message, statusCode |-> 0, code |-> "",
     timeout |-> 0]

NoError ==
    [isAppError |-> FALSE, message |-> <<>>, statusCode |-> 0, code |-> "none",
     timeout |-> 0]

\* const response before page.goto has resolved
NoResponse == [kind |-> "none", status |-> 0]

\* error.message.includes(word)
Includes(message, word) == \E i \in 1..Len(message) : message[i] = word

\* messages of the errors Playwright calls reject with
RawMessages ==
    { <<"page.goto:", "Timeout", "exceeded.">>,
      <<"navigation", "timeout", "exceeded">>,
      <<"page.goto:", "net::", "ERR_NAME_NOT_RESOLVED">>,
      <<"page.goto:", "net::", "ERR_NAME_NOT_RESOLVED", "at", "https://", "timeout",
        ".example">>,
      <<"Target", "page,", "context", "or", "browser", "has", "been", "closed">> }

\* the messages of Playwright's TimeoutError: "Timeout <n>ms exceeded." in the
\* current library, "timeout" in lower case in early releases
TimeoutMessages ==
    { <<"page.goto:", "Timeout", "exceeded.">>,
      <<"navigation", "timeout", "exceeded">> }

\* why a Playwright call rejected with this message
CauseOf(message) ==
    IF message \in TimeoutMessages THEN "timeout"
    ELSE IF Includes(message, "net::") THEN "network"
    ELSE "closed"

StatusCodes == {200, 404, 500}

StatusText(status) ==
    CASE status = 200 -> "OK"
      [] status = 404 -> "Not Found"
      [] status = 500 -> "Internal Server Error"

\* what page.goto can do: reject, resolve with null, resolve with a response
GotoOutcomes ==
    { [kind |-> "throw", message |-> m, status |-> 0] : m \in RawMessages }
    \cup { [kind |-> "null", message |-> <<>>, status |-> 0] }
    \cup { [kind |-> "response", message |-> <<>>, status |-> c] : c \in StatusCodes }

ResponseOkAlways(status) == TRUE

\* response.ok()
ResponseOk(status) == status >= 200 /\ status <= 299

\* options.timeout || 30000
EffectiveTimeout(options_) ==
    IF options_.timeout = 0 THEN DefaultTimeout ELSE options_.timeout

\* the catch block testing for 'net::' before 'timeout'
CatchAnalyzeNetFirst(err, options_) ==
    IF err.isAppError THEN err
    ELSE IF Includes(err.message, "net::")
         THEN AppError(<<"Network", "error">>, 502, "NETWORK_ERROR", 0)
    ELSE IF Includes(err.message, "timeout")
         THEN AppError(<<"Page", "load", "timeout">>, 504, "TIMEOUT_ERROR",
                       EffectiveTimeout(options_))
    ELSE AppError(<<"Analysis", "failed">>, 500, "ANALYSIS_ERROR", 0)

\* the catch block of analyzeUrl: the error that leaves the method
CatchAnalyze(err, options_) ==
    IF err.isAppError THEN err
    ELSE IF Includes(err.message, "timeout")
         THEN AppError(<<"Page", "load", "timeout">>, 504, "TIMEOUT_ERROR",
                       EffectiveTimeout(options_))
    ELSE IF Includes(err.message, "net::")
         THEN AppError(<<"Network", "error">>, 502, "NETWORK_ERROR", 0)
    ELSE AppError(<<"Analysis", "failed">>, 500, "ANALYSIS_ERROR", 0)

\* option objects and viewport lists a caller passes to analyzeUrl
OptionSets == { [timeout |-> t, waitFor |-> w] : t \in {0, 10000}, w \in {"", "#app"} }

NoOptions == [timeout |-> 0, waitFor |-> ""]

NoCalc == [passed |-> 0, total |-> 0, score |-> 0, applied |-> FALSE]

EmptyRegistry == RegistryOf([c \in CategorySet |-> 0])

\* the registries analyzeUrl is run over: criteria of the first and of the last
\* category
FlowRegistries ==
    {reg \in Registries(FlowMaxCriteria) :
        \A c \in CategorySet \ {"accessibility", "usability"} : Len(reg[c]) = 0}

\* the viewport lists a caller of analyzeUrl supplies (the empty list, which
\* selects the defaults, is taken in SpecShots)
FlowViewportLists ==
    SeqsUpTo({[name |-> "laptop", width |-> 1366, height |-> 768]}, FlowMaxViewports)
    \ {<<>>}

\* a caller invokes playwrightService.analyzeUrl(url, viewports, options)
AnalyzeUrl ==
    /\ entry = "analyzeUrl"
    /\ pc = "idle"
    /\ pc' = "initialize"
    /\ options' \in OptionSets
    /\ viewports' \in FlowViewportLists
    /\ UNCHANGED <<lifecycleVars, controllerVars, batchVars, navigation, waits, pageDom,
                   inFlight,
                   faults, entry, isInitialized, browser, context, registry, pageViewport, vpIdx,
                   screenshots, shotLog, critIdx, results, totalItems, passedItems,
                   checkLog, analysis, performance, ret, error, response,
                   calc>>

\* await this.initialize(): the browser is already there
InitializeSkip ==
    /\ pc = "initialize"
    /\ isInitialized
    /\ pc' = "newContext"
    /\ UNCHANGED <<lifecycleVars, controllerVars, batchVars, navigation, waits, pageDom,
                   inFlight,
                   faults, entry, isInitialized, browser, context, options, viewports, registry,
                   pageViewport, vpIdx, screenshots, shotLog, critIdx, results,
                   totalItems, passedItems, checkLog, analysis, performance, ret,
                   error, response,
                   calc>>

\* await this.initialize(): chromium.launch resolves
InitializeLaunch ==
    /\ pc = "initialize"
    /\ ~isInitialized
    /\ browser' = "browser"
    /\ isInitialized' = TRUE
    /\ pc' = "newContext"
    /\ UNCHANGED <<lifecycleVars, controllerVars, batchVars, navigation, waits, pageDom,
                   inFlight,
                   faults, entry, context, options, viewports, registry, pageViewport, vpIdx,
                   screenshots, shotLog, critIdx, results, totalItems, passedItems,
                   checkLog, analysis, performance, ret, error, response,
                   calc>>

\* await this.initialize(): chromium.launch rejects
InitializeFail ==
    /\ pc = "initialize"
    /\ ~isInitialized
    /\ pc' = "thrown"
    /\ raised' = AppError(<<"Failed", "to", "initialize", "browser">>, 500,
                          "PLAYWRIGHT_INIT_ERROR", 0)
    /\ error' = CatchAnalyze(AppError(<<"Failed", "to", "initialize", "browser">>, 500,
                                      "PLAYWRIGHT_INIT_ERROR", 0),
                            options)
    /\ UNCHANGED <<callers, live, launches, runs, controllerVars, batchVars, navigation,
                   waits, pageDom, inFlight,
                   faults, entry, isInitialized, browser, context, options, viewports, registry,
                   pageViewport, vpIdx, screenshots, shotLog, critIdx, results,
                   totalItems, passedItems, checkLog, analysis, performance, ret, response,
                   calc>>

\* const context = await this.browser.newContext({...})
NewContext ==
    /\ pc = "newContext"
    /\ \/ /\ context' = "open"
          /\ pc' = "newPage"
          /\ error' = error /\ raised' = raised
       \/ /\ \E m \in RawMessages :
                /\ raised' = PlainError(m)
                /\ error' = CatchAnalyze(PlainError(m), options)
          /\ pc' = "thrown"
          /\ context' = context
    /\ UNCHANGED <<callers, live, launches, runs, controllerVars, batchVars, navigation,
                   waits, pageDom, inFlight,
                   faults, entry, isInitialized, browser, options, viewports, registry,
                   pageViewport, vpIdx, screenshots, shotLog, critIdx, results,
                   totalItems, passedItems, checkLog, analysis, performance, ret, response,
                   calc>>

\* const page = await context.newPage()
NewPage ==
    /\ pc = "newPage"
    /\ \/ /\ pc' = "goto"
          /\ error' = error /\ raised' = raised
       \/ /\ \E m \in RawMessages :
                /\ raised' = PlainError(m)
                /\ error' = CatchAnalyze(PlainError(m), options)
          /\ pc' = "thrown"
    /\ UNCHANGED <<callers, live, launches, runs, controllerVars, batchVars, navigation,
                   waits, pageDom, inFlight,
                   faults, entry, isInitialized, browser, context, options, viewports, registry,
                   pageViewport, vpIdx, screenshots, shotLog, critIdx, results,
                   totalItems, passedItems, checkLog, analysis, performance, ret, response,
                   calc>>

\* const response = await page.goto(url, {...}) and the two checks of the response
Goto ==
    /\ pc = "goto"
    /\ \E o \in GotoOutcomes :
          IF o.kind = "throw"
          THEN /\ raised' = PlainError(o.message)
               /\ error' = CatchAnalyze(PlainError(o.message), options)
               /\ pc' = "thrown"
               /\ response' = response
               /\ navigation' = CauseOf(o.message)
          ELSE IF o.kind = "null"
          THEN /\ raised' = AppError(<<"Failed", "to", "load", "page">>, 502,
                                     "PAGE_LOAD_FAILED", 0)
               /\ error' = CatchAnalyze(AppError(<<"Failed", "to", "load", "page">>, 502,
                                                 "PAGE_LOAD_FAILED", 0),
                                        options)
               /\ pc' = "thrown"
               /\ response' = [kind |-> "null", status |-> 0]
               /\ navigation' = "null"
          ELSE IF ~ResponseOk(o.status)
          THEN /\ raised' = AppError(<<"HTTP", ToString(o.status) \o ":",
                                       StatusText(o.status)>>, 502, "HTTP_ERROR", 0)
               /\ error' = CatchAnalyze(AppError(<<"HTTP", ToString(o.status) \o ":",
                                                   StatusText(o.status)>>, 502, "HTTP_ERROR", 0),
                                        options)
               /\ pc' = "thrown"
               /\ response' = [kind |-> "response", status |-> o.status]
               /\ navigation' = "response"
          ELSE /\ error' = error /\ raised' = raised
               /\ pc' = IF options.waitFor # "" THEN "waitFor" ELSE "networkIdle"
               /\ response' = [kind |-> "response", status |-> o.status]
               /\ navigation' = "response"
    /\ UNCHANGED <<callers, live, launches, runs, controllerVars, batchVars, waits,
                   pageDom, inFlight,
                   faults, entry, isInitialized, browser, context, options, viewports, registry,
                   pageViewport, vpIdx, screenshots, shotLog, critIdx, results,
                   totalItems, passedItems, checkLog, analysis, performance, ret, calc>>

NoWaits == [selector |-> "none", idle |-> "none"]

\* the selector wait without its try/catch
WaitForSelectorRethrows ==
    /\ pc = "waitFor"
    /\ \E found \in BOOLEAN :
          /\ waits' = [waits EXCEPT !.selector = IF found THEN "found" ELSE "failed"]
          /\ pc' = IF found THEN "networkIdle" ELSE "thrown"
          /\ error' = IF found THEN error
                      ELSE CatchAnalyze(PlainError(<<"page.waitForSelector:", "Timeout",
                                                     "exceeded.">>), options)
    /\ UNCHANGED <<lifecycleVars, controllerVars, batchVars, navigation, pageDom,
                   inFlight, faults,
                   entry, isInitialized, browser, context, options, viewports, registry,
                   pageViewport, vpIdx, screenshots, shotLog, critIdx, results,
                   totalItems, passedItems, checkLog, analysis, performance, ret,
                   response, calc>>

\* if (options.waitFor) { try { await page.waitForSelector(...) } catch {...} }
WaitForSelector ==
    /\ pc = "waitFor"
    /\ \E found \in BOOLEAN :
          waits' = [waits EXCEPT !.selector = IF found THEN "found" ELSE "failed"]
    /\ pc' = "networkIdle"
    /\ error' = error
    /\ UNCHANGED <<lifecycleVars, controllerVars, batchVars, navigation, pageDom,
                   inFlight, faults,
                   entry, isInitialized, browser, context, options, viewports, registry,
                   pageViewport, vpIdx, screenshots, shotLog, critIdx, results,
                   totalItems, passedItems, checkLog, analysis, performance, ret,
                   response, calc>>

\* the idle wait without its .catch
WaitNetworkIdleRethrows ==
    /\ pc = "networkIdle"
    /\ \E idle \in BOOLEAN :
          /\ waits' = [waits EXCEPT !.idle = IF idle THEN "idle" ELSE "failed"]
          /\ pc' = IF idle THEN "screenshots" ELSE "thrown"
          /\ error' = IF idle THEN error
                      ELSE CatchAnalyze(PlainError(<<"page.waitForLoadState:", "Timeout",
                                                     "exceeded.">>), options)
    /\ UNCHANGED <<lifecycleVars, controllerVars, batchVars, navigation, pageDom,
                   inFlight, faults,
                   entry, isInitialized, browser, context, options, viewports, registry,
                   pageViewport, vpIdx, screenshots, shotLog, critIdx, results,
                   totalItems, passedItems, checkLog, analysis, performance, ret,
                   response, calc>>

\* await page.waitForLoadState('networkidle', {...}).catch(() => {...})
WaitNetworkIdle ==
    /\ pc = "networkIdle"
    /\ \E idle \in BOOLEAN :
          waits' = [waits EXCEPT !.idle = IF idle THEN "idle" ELSE "failed"]
    /\ pc' = "screenshots"
    /\ error' = error
    /\ UNCHANGED <<lifecycleVars, controllerVars, batchVars, navigation, pageDom,
                   inFlight, faults,
                   entry, isInitialized, browser, context, options, viewports, registry,
                   pageViewport, vpIdx, screenshots, shotLog, critIdx, results,
                   totalItems, passedItems, checkLog, analysis, performance, ret,
                   response, calc>>

MetricsOutcomes ==
    { [domElements |-> 120, networkRequests |-> 14, error |-> Undefined],
      [domElements |-> 0, networkRequests |-> 0, error |-> "evaluate: Target closed"] }

\* const performanceMetrics = await this.getPerformanceMetrics(page)
GetPerformanceMetrics ==
    /\ pc = "metrics"
    /\ \E m \in MetricsOutcomes : performance' = <<m>>
    /\ pc' = "closeContext"
    /\ UNCHANGED <<lifecycleVars, controllerVars, batchVars, navigation, waits, pageDom,
                   inFlight,
                   faults, entry, isInitialized, browser, context, options, viewports, registry,
                   pageViewport, vpIdx, screenshots, shotLog, critIdx, results,
                   totalItems, passedItems, checkLog, analysis, ret, error, response,
                   calc>>

\* await context.close(), then return { success: true, ... }
CloseAndReturn ==
    /\ pc = "closeContext"
    /\ \/ /\ context' = "closed"
          /\ ret' = << [success |-> TRUE, url |-> TargetUrl, analysisId |-> AnalysisId,
                        screenshots |-> screenshots, analysis |-> analysis[1],
                        performance |-> performance[1]] >>
          /\ pc' = "returned"
          /\ error' = error /\ raised' = raised
       \/ /\ \E m \in RawMessages :
                /\ raised' = PlainError(m)
                /\ error' = CatchAnalyze(PlainError(m), options)
          /\ pc' = "thrown"
          /\ UNCHANGED <<context, ret>>
    /\ UNCHANGED <<callers, live, launches, runs, controllerVars, batchVars, navigation,
                   waits, pageDom, inFlight,
                   faults, entry, isInitialized, browser, options, viewports, registry,
                   pageViewport, vpIdx, screenshots, shotLog, critIdx, results,
                   totalItems, passedItems, checkLog, analysis, performance, response,
                   calc>>

----------------------------------------------------------------------------
(* The controller: POST /analyze *)

\* urls a client may send (scheme and the labels of the host name); a string
\* without a scheme is no URI, and a body may have no url at all
PublicUrl == [present |-> TRUE, scheme |-> "https", host |-> <<"example", "com">>]

RequestUrls ==
    { PublicUrl,
      [present |-> TRUE,  scheme |-> "http",  host |-> <<"localhost">>],
      [present |-> TRUE,  scheme |-> "http",  host |-> <<"127", "0", "0", "1">>],
      [present |-> TRUE,  scheme |-> "https", host |-> <<"10", "0", "0", "5">>],
      [present |-> TRUE,  scheme |-> "http",  host |-> <<"192", "168", "1", "10">>],
      [present |-> TRUE,  scheme |-> "http",  host |-> <<"172", "16", "0", "1">>],
      [present |-> TRUE,  scheme |-> "http",  host |-> <<"172", "31", "255", "1">>],
      [present |-> TRUE,  scheme |-> "http",  host |-> <<"172", "32", "0", "1">>],
      [present |-> TRUE,  scheme |-> "ftp",   host |-> <<"example", "com">>],
      [present |-> TRUE,  scheme |-> "ftp",   host |-> <<"localhost">>],
      [present |-> TRUE,  scheme |-> "",      host |-> <<"not-a-valid-url">>],
      [present |-> FALSE, scheme |-> "",      host |-> <<>>] }

\* req.body, with process.env.NODE_ENV of the server; timeout 0 and waitFor ""
\* stand for an absent option, and viewports are those of the service's
\* callers. The options vary for the public url, the url varies for one
\* choice of the options.
Requests ==
    { [url |-> PublicUrl, viewports |-> v, timeout |-> t, waitFor |-> w,
       generateReport |-> g, nodeEnv |-> "production"] :
      v \in FlowViewportLists, t \in {0, 3000, 5000},
      w \in {"", "#app"}, g \in BOOLEAN }
    \cup
    { [url |-> u, viewports |-> <<[name |-> "laptop", width |-> 1366, height |-> 768]>>,
       timeout |-> 0, waitFor |-> "", generateReport |-> FALSE, nodeEnv |-> n] :
      u \in RequestUrls, n \in {"production", "test"} }

\* analyzeSchema.validate(req.body) reports no error
ValidBody(body) ==
    /\ body.url.present /\ body.url.scheme # ""
    /\ \A i \in 1..Len(body.viewports) :
          /\ body.viewports[i].width >= 100 /\ body.viewports[i].width <= 4000
          /\ body.viewports[i].height >= 100 /\ body.viewports[i].height <= 4000
    /\ body.timeout # 0 => body.timeout >= 5000 /\ body.timeout <= 120000

\* the test with a pattern for the 172 range that only knows 172.16.
PrivateHostOnly17216(host) ==
    \/ host = <<"localhost">>
    \/ Len(host) >= 2 /\ host[1] \in {"127", "10"}
    \/ Len(host) >= 3 /\ host[1] = "192" /\ host[2] = "168"
    \/ Len(host) >= 3 /\ host[1] = "172" /\ host[2] = "16"

\* hostname is localhost or starts with 127., 10., 192.168. or 172.16. to 172.31.
PrivateHost(host) ==
    \/ host = <<"localhost">>
    \/ Len(host) >= 2 /\ host[1] \in {"127", "10"}
    \/ Len(host) >= 3 /\ host[1] = "192" /\ host[2] = "168"
    \/ Len(host) >= 3 /\ host[1] = "172"
          /\ host[2] \in {"16", "17", "18", "19", "20", "21", "22", "23", "24", "25",
                          "26", "27", "28", "29", "30", "31"}

\* the security check of the url: the AppError it throws, NoError when it passes
UrlCheck(body) ==
    IF body.url.scheme \notin {"http", "https"}
    THEN AppError(<<"Only", "HTTP", "and", "HTTPS", "URLs", "are", "supported">>, 400,
                  "INVALID_PROTOCOL", 0)
    ELSE IF body.nodeEnv = "production" /\ PrivateHost(body.url.host)
    THEN AppError(<<"Private", "IP", "addresses", "are", "not", "allowed">>, 400,
                  "PRIVATE_IP_BLOCKED", 0)
    ELSE NoError

Reply(status, code, reportUrl) ==
    [status |-> status, success |-> status = 200, code |-> code, reportUrl |-> reportUrl]

\* the error-handling middleware: the response it sends for err
ErrorReply(err, nodeEnv) ==
    LET statusCode == IF err.statusCode = 0 THEN 500 ELSE err.statusCode
    IN  IF nodeEnv = "development" THEN Reply(statusCode, err.code, Null)
        ELSE IF Includes(err.message, "playwright")
             THEN Reply(502,
                        IF Includes(err.message, "timeout") THEN "PLAYWRIGHT_TIMEOUT"
                        ELSE IF Includes(err.message, "net::")
                             THEN "PLAYWRIGHT_NETWORK_ERROR"
                        ELSE "PLAYWRIGHT_ERROR",
                        Null)
        ELSE IF err.isAppError THEN Reply(statusCode, err.code, Null)
        ELSE Reply(500, "INTERNAL_SERVER_ERROR", Null)

\* the handler up to its call of playwrightService.analyzeUrl: validation, the
\* url check, and the catch block handing an AppError to the middleware
PostAnalyze ==
    /\ entry = "postAnalyze"
    /\ pc = "idle"
    /\ \E body \in Requests :
          /\ request' = <<body>>
          /\ IF ~ValidBody(body)
             THEN /\ reply' = <<Reply(400, "VALIDATION_ERROR", Null)>>
                  /\ pc' = "replied"
                  /\ UNCHANGED <<options, viewports>>
             ELSE IF UrlCheck(body) # NoError
             THEN /\ reply' = <<ErrorReply(UrlCheck(body), body.nodeEnv)>>
                  /\ pc' = "replied"
                  /\ UNCHANGED <<options, viewports>>
             ELSE /\ reply' = reply
                  /\ options' = [timeout |-> body.timeout, waitFor |-> body.waitFor]
                  /\ viewports' = body.viewports
                  /\ pc' = "initialize"
    /\ UNCHANGED <<lifecycleVars, reportLog, batchVars, navigation, waits, pageDom,
                   inFlight, faults, entry, isInitialized, browser, context, registry, pageViewport,
                   vpIdx, screenshots, shotLog, critIdx, results, totalItems,
                   passedItems, checkLog, analysis, performance, ret, error, response,
                   calc>>

\* playwrightService.analyzeUrl threw: catch (error) { ...; next(error) }
ServiceThrew ==
    /\ entry = "postAnalyze"
    /\ pc = "thrown"
    /\ reply' = <<ErrorReply(error, request[1].nodeEnv)>>
    /\ pc' = "replied"
    /\ UNCHANGED <<lifecycleVars, request, reportLog, batchVars, navigation, waits,
                   pageDom, inFlight, faults,
                   options, viewports,
                   entry, isInitialized, browser, context, registry, pageViewport,
                   vpIdx, screenshots, shotLog, critIdx, results, totalItems,
                   passedItems, checkLog, analysis, performance, ret, error, response,
                   calc>>

\* reportService.generateReport resolves with the report's public URL
ReportUrl == "https://storage.googleapis.com/reports/" \o AnalysisId

\* the screenshots of the 200 response: screenshot.error || null
ResponseScreenshots(shots) ==
    [i \in 1..Len(shots) |->
        [viewport |-> shots[i].viewport, width |-> shots[i].width,
         height |-> shots[i].height, url |-> shots[i].gcs_url,
         sizeBytes |-> shots[i].size_bytes,
         error |-> IF shots[i].error = Undefined THEN Null ELSE shots[i].error]]

\* the 200 response built from analyzeUrl's result
SuccessReply(result, reportUrl) ==
    [status |-> 200, success |-> TRUE, code |-> "", reportUrl |-> reportUrl,
     url |-> result.url, analysisId |-> result.analysisId,
     screenshots |-> ResponseScreenshots(result.screenshots),
     analysis |->
        [summary |-> result.analysis.summary,
         categories |->
            [c \in CategorySet |->
                SelectSeq(result.analysis.items, LAMBDA item : item.category = c)]],
     performance |-> result.performance]

\* the handler without the try around generateReport: a failed report goes to
\* the catch block and next(error)
ServiceReturnedReportFatal ==
    /\ entry = "postAnalyze"
    /\ pc = "returned"
    /\ IF request[1].generateReport
       THEN \/ /\ reportLog' = "generated"
               /\ reply' = <<SuccessReply(ret[1], ReportUrl)>>
            \/ /\ reportLog' = "failed"
               /\ reply' = <<ErrorReply(AppError(<<"Report", "upload", "failed">>, 500,
                                                 "GCS_UPLOAD_ERROR", 0),
                                        request[1].nodeEnv)>>
       ELSE /\ reportLog' = "none"
            /\ reply' = <<SuccessReply(ret[1], Null)>>
    /\ pc' = "replied"
    /\ UNCHANGED <<lifecycleVars, request, batchVars, navigation, waits,
                   pageDom, inFlight, faults,
                   options, viewports,
                   entry, isInitialized, browser, context, registry, pageViewport,
                   vpIdx, screenshots, shotLog, critIdx, results, totalItems,
                   passedItems, checkLog, analysis, performance, ret, error, response,
                   calc>>

\* playwrightService.analyzeUrl returned: the report, unless
\* options.generateReport is false, inside its own try/catch, and the 200
\* response
ServiceReturned ==
    /\ entry = "postAnalyze"
    /\ pc = "returned"
    /\ IF request[1].generateReport
       THEN \/ /\ reportLog' = "generated"
               /\ reply' = <<SuccessReply(ret[1], ReportUrl)>>
            \/ /\ reportLog' = "failed"
               /\ reply' = <<SuccessReply(ret[1], Null)>>
       ELSE /\ reportLog' = "none"
            /\ reply' = <<SuccessReply(ret[1], Null)>>
    /\ pc' = "replied"
    /\ UNCHANGED <<lifecycleVars, request, batchVars, navigation, waits,
                   pageDom, inFlight, faults,
                   options, viewports,
                   entry, isInitialized, browser, context, registry, pageViewport,
                   vpIdx, screenshots, shotLog, critIdx, results, totalItems,
                   passedItems, checkLog, analysis, performance, ret, error, response,
                   calc>>

----------------------------------------------------------------------------
(* The controller: analyzeBatch *)

\* const concurrencyLimit = 5
ConcurrencyLimit == 5

\* urls.length > 100 is refused
BatchUrlLimit == 100

\* lengths of the urls array a client may send
BatchSizes == 0..MaxUrls \cup {BatchUrlLimit + 1}

\* how one analyzeUrl call of the batch settles: it resolves with a result, or
\* rejects with one of the errors its catch block throws
RunOutcomes ==
    { [ok |-> TRUE,  code |-> "", score |-> 67],
      [ok |-> FALSE, code |-> "HTTP_ERROR", score |-> 0],
      [ok |-> FALSE, code |-> "ANALYSIS_ERROR", score |-> 0] }

Min(a, b) == IF a < b THEN a ELSE b

\* the handler up to the chunking of urls
PostBatch ==
    /\ entry = "postBatch"
    /\ pc = "idle"
    /\ \E n \in BatchSizes :
          /\ request' = <<[urls |-> n]>>
          /\ IF n = 0
             THEN /\ reply' = <<Reply(400, "MISSING_URLS", Null)>>
                  /\ pc' = "replied"
                  /\ UNCHANGED <<urlCount, calls>>
             ELSE IF n > BatchUrlLimit
             THEN /\ reply' = <<Reply(400, "TOO_MANY_URLS", Null)>>
                  /\ pc' = "replied"
                  /\ UNCHANGED <<urlCount, calls>>
             ELSE /\ reply' = reply
                  /\ urlCount' = n
                  /\ calls' = [i \in 1..n |-> 0]
                  /\ pc' = "chunk"
    /\ UNCHANGED <<lifecycleVars, reportLog, chunkBase, running, batchResults,
                   batchErrors, navigation, waits, pageDom, inFlight, faults, entry,
                   isInitialized, browser, context, options, viewports, registry,
                   pageViewport, vpIdx, screenshots, shotLog, critIdx, results,
                   totalItems, passedItems, checkLog, analysis, performance, ret, error,
                   response, calc>>

\* the loop without chunks: every url is mapped to a call at once
ChunkStartAll ==
    /\ entry = "postBatch"
    /\ pc = "chunk"
    /\ chunkBase < urlCount
    /\ running' = (chunkBase + 1)..urlCount
    /\ calls' = [i \in 1..urlCount |-> IF i \in running' THEN calls[i] + 1 ELSE calls[i]]
    /\ pc' = "awaitChunk"
    /\ UNCHANGED <<lifecycleVars, controllerVars, urlCount, chunkBase, batchResults,
                   batchErrors,
                   navigation, waits, pageDom, inFlight, faults, entry,
                   isInitialized, browser, context, options, viewports, registry,
                   pageViewport, vpIdx, screenshots, shotLog, critIdx, results,
                   totalItems, passedItems, checkLog, analysis, performance, ret, error,
                   response, calc>>

\* for (const chunk of chunks): chunk.map(async (url) => ...) calls analyzeUrl
\* for every url of the chunk
ChunkStart ==
    /\ entry = "postBatch"
    /\ pc = "chunk"
    /\ chunkBase < urlCount
    /\ running' = (chunkBase + 1)..Min(chunkBase + ConcurrencyLimit, urlCount)
    /\ calls' = [i \in 1..urlCount |-> IF i \in running' THEN calls[i] + 1 ELSE calls[i]]
    /\ pc' = "awaitChunk"
    /\ UNCHANGED <<lifecycleVars, controllerVars, urlCount, chunkBase, batchResults,
                   batchErrors,
                   navigation, waits, pageDom, inFlight, faults, entry,
                   isInitialized, browser, context, options, viewports, registry,
                   pageViewport, vpIdx, screenshots, shotLog, critIdx, results,
                   totalItems, passedItems, checkLog, analysis, performance, ret, error,
                   response, calc>>

\* a rejection that is not caught per url: it ends the wait for the chunk and
\* the other calls of the chunk are never recorded
RunSettleAbandonsChunk ==
    /\ entry = "postBatch"
    /\ pc = "awaitChunk"
    /\ \E i \in running : \E o \in RunOutcomes :
          /\ batchResults' = IF o.ok
                             THEN Append(batchResults, [url |-> i, success |-> TRUE,
                                                        score |-> o.score])
                             ELSE batchResults
          /\ batchErrors' = IF o.ok THEN batchErrors
                            ELSE Append(batchErrors, [url |-> i, code |-> o.code])
          /\ running' = IF o.ok THEN running \ {i} ELSE {}
    /\ UNCHANGED <<lifecycleVars, controllerVars, urlCount, chunkBase, calls, pc,
                   navigation, waits, pageDom, inFlight, faults, entry,
                   isInitialized, browser, context, options, viewports, registry,
                   pageViewport, vpIdx, screenshots, shotLog, critIdx, results,
                   totalItems, passedItems, checkLog, analysis, performance, ret, error,
                   response, calc>>

\* one call of the chunk settles: results.push in the try block, or errors.push
\* in the catch block
RunSettle ==
    /\ entry = "postBatch"
    /\ pc = "awaitChunk"
    /\ \E i \in running : \E o \in RunOutcomes :
          /\ batchResults' = IF o.ok
                             THEN Append(batchResults, [url |-> i, success |-> TRUE,
                                                        score |-> o.score])
                             ELSE batchResults
          /\ batchErrors' = IF o.ok THEN batchErrors
                            ELSE Append(batchErrors, [url |-> i, code |-> o.code])
          /\ running' = running \ {i}
    /\ UNCHANGED <<lifecycleVars, controllerVars, urlCount, chunkBase, calls, pc,
                   navigation, waits, pageDom, inFlight, faults, entry,
                   isInitialized, browser, context, options, viewports, registry,
                   pageViewport, vpIdx, screenshots, shotLog, critIdx, results,
                   totalItems, passedItems, checkLog, analysis, performance, ret, error,
                   response, calc>>

\* await Promise.all(chunkPromises) resolves: on to the next chunk
ChunkDone ==
    /\ entry = "postBatch"
    /\ pc = "awaitChunk"
    /\ running = {}
    /\ chunkBase' = chunkBase + ConcurrencyLimit
    /\ pc' = "chunk"
    /\ UNCHANGED <<lifecycleVars, controllerVars, urlCount, running, calls, batchResults,
                   batchErrors,
                   navigation, waits, pageDom, inFlight, faults, entry,
                   isInitialized, browser, context, options, viewports, registry,
                   pageViewport, vpIdx, screenshots, shotLog, critIdx, results,
                   totalItems, passedItems, checkLog, analysis, performance, ret, error,
                   response, calc>>

BatchReply ==
    [status |-> 200, success |-> TRUE, code |-> "", reportUrl |-> Null,
     summary |-> [total |-> urlCount,
                  successful |-> Len(batchResults),
                  failed |-> Len(batchErrors),
                  successRate |-> Score(Len(batchResults), urlCount)],
     results |-> batchResults,
     errors |-> batchErrors]

\* after the last chunk: the summary and the 200 response
BatchRespond ==
    /\ entry = "postBatch"
    /\ pc = "chunk"
    /\ chunkBase >= urlCount
    /\ reply' = <<BatchReply>>
    /\ pc' = "replied"
    /\ UNCHANGED <<lifecycleVars, request, reportLog, batchVars,
                   navigation, waits, pageDom, inFlight, faults, entry,
                   isInitialized, browser, context, options, viewports, registry,
                   pageViewport, vpIdx, screenshots, shotLog, critIdx, results,
                   totalItems, passedItems, checkLog, analysis, performance, ret, error,
                   response, calc>>

----------------------------------------------------------------------------
(* The score expression taken alone *)

ComputeScore ==
    /\ pc = "score"
    /\ ~calc.applied
    /\ calc' = [calc EXCEPT !.score = Score(calc.passed, calc.total), !.applied = TRUE]
    /\ UNCHANGED <<lifecycleVars, controllerVars, batchVars, navigation, waits, pageDom,
                   inFlight,
                   faults, pc, entry, isInitialized, browser, context, options, viewports,
                   registry, pageViewport, vpIdx, screenshots, shotLog, critIdx, results,
                   totalItems, passedItems, checkLog, analysis, performance, ret, error,
                   response>>

----------------------------------------------------------------------------
(* Specifications *)

----------------------------------------------------------------------------
(* The life cycle of the singleton: initialize() and close() under concurrency *)

Callers == 1..MaxCallers

\* what the life cycle leaves alone
flowVars == <<pc, entry, context, options, viewports, registry, pageViewport, vpIdx,
              screenshots, shotLog, critIdx, results, totalItems, passedItems,
              checkLog, analysis, performance, ret, error, response, calc,
              navigation, waits, pageDom, inFlight, faults, runs, raised>>

\* the browser object the n-th resolved chromium.launch returns
BrowserId(n) == "browser-" \o ToString(n)

\* launches begun and not yet settled
Launching == {q \in Callers : callers[q].pc = "launching"}

\* analyzeUrl's await this.initialize(), up to the first await: return at
\* once when isInitialized, else call chromium.launch
CallInitialize(p) ==
    /\ entry = "service"
    /\ callers[p].pc = "idle"
    /\ IF isInitialized
       THEN callers' = [callers EXCEPT ![p].pc = "ready"]
       ELSE /\ launches + Cardinality(Launching) < MaxLaunches
            /\ callers' = [callers EXCEPT ![p].pc = "launching"]
    /\ UNCHANGED <<isInitialized, browser, live, launches, flowVars, controllerVars,
                   batchVars>>

\* chromium.launch resolves: this.browser = <the new browser>;
\* this.isInitialized = true
LaunchResolves(p) ==
    /\ entry = "service"
    /\ callers[p].pc = "launching"
    /\ browser' = BrowserId(launches + 1)
    /\ isInitialized' = TRUE
    /\ live' = live \cup {BrowserId(launches + 1)}
    /\ launches' = launches + 1
    /\ callers' = [callers EXCEPT ![p].pc = "ready"]
    /\ UNCHANGED <<flowVars, controllerVars, batchVars>>

\* chromium.launch rejects: initialize throws PLAYWRIGHT_INIT_ERROR and the
\* caller's analyzeUrl ends
LaunchRejects(p) ==
    /\ entry = "service"
    /\ callers[p].pc = "launching"
    /\ callers' = [callers EXCEPT ![p].pc = "idle"]
    /\ UNCHANGED <<isInitialized, browser, live, launches, flowVars, controllerVars,
                   batchVars>>

\* the rest of the caller's analyzeUrl, which leaves both fields alone
AnalysisEnds(p) ==
    /\ entry = "service"
    /\ callers[p].pc = "ready"
    /\ callers' = [callers EXCEPT ![p].pc = "idle"]
    /\ UNCHANGED <<isInitialized, browser, live, launches, flowVars, controllerVars,
                   batchVars>>

\* close(), up to its await: if (this.browser) { await this.browser.close(); ...
\* (with this.browser null the call returns and changes nothing)
CallClose(p) ==
    /\ entry = "service"
    /\ callers[p].pc = "idle"
    /\ browser # Null
    /\ callers' = [callers EXCEPT ![p] = [pc |-> "closing", target |-> browser]]
    /\ UNCHANGED <<isInitialized, browser, live, launches, flowVars, controllerVars,
                   batchVars>>

\* close() that resets the browser field and forgets the flag
CloseResolvesKeepsFlag(p) ==
    /\ entry = "service"
    /\ callers[p].pc = "closing"
    /\ live' = live \ {callers[p].target}
    /\ browser' = Null
    /\ isInitialized' = isInitialized
    /\ callers' = [callers EXCEPT ![p] = [pc |-> "idle", target |-> Null]]
    /\ UNCHANGED <<launches, flowVars, controllerVars, batchVars>>

\* browser.close() resolves: this.browser = null; this.isInitialized = false
CloseResolves(p) ==
    /\ entry = "service"
    /\ callers[p].pc = "closing"
    /\ live' = live \ {callers[p].target}
    /\ browser' = Null
    /\ isInitialized' = FALSE
    /\ callers' = [callers EXCEPT ![p] = [pc |-> "idle", target |-> Null]]
    /\ UNCHANGED <<launches, flowVars, controllerVars, batchVars>>

\* browser.close() rejects: close() throws before it resets the fields
CloseRejects(p) ==
    /\ entry = "service"
    /\ callers[p].pc = "closing"
    /\ callers' = [callers EXCEPT ![p] = [pc |-> "idle", target |-> Null]]
    /\ UNCHANGED <<isInitialized, browser, live, launches, flowVars, controllerVars,
                   batchVars>>

\* no request is being handled
NoRequest == request = <<>> /\ reply = <<>> /\ reportLog = "none"

NoBatch ==
    /\ urlCount = 0 /\ chunkBase = 0 /\ running = {}
    /\ calls = <<>> /\ batchResults = <<>> /\ batchErrors = <<>>

\* no caller is tracked separately and no browser process exists
NoCallers ==
    /\ callers = <<>> /\ live = {} /\ launches = 0 /\ runs = 0
    /\ raised = NoError

\* the locals of a call that has not started its loops
FreshLocals ==
    /\ vpIdx = 0 /\ screenshots = <<>> /\ shotLog = <<>>
    /\ critIdx = 0 /\ results = <<>> /\ totalItems = 0 /\ passedItems = 0
    /\ checkLog = <<>> /\ analysis = <<>>
    /\ performance = <<>> /\ ret = <<>> /\ error = NoError
    /\ response = NoResponse
    /\ pageViewport = InitialViewport
    /\ navigation = "none" /\ waits = NoWaits
    /\ pageDom = FreshDom /\ inFlight = {}

\* the singleton service before a call of analyzeUrl: as constructed, or with
\* the browser an earlier call launched
Init ==
    /\ pc = "idle" /\ entry = "analyzeUrl"
    /\ \/ isInitialized = FALSE /\ browser = Null
       \/ isInitialized = TRUE /\ browser = "browser"
    /\ context = "none"
    /\ options = NoOptions /\ viewports = <<>>
    /\ registry \in FlowRegistries
    /\ FreshLocals
    /\ faults = FlowMaxCriteria
    /\ calc = NoCalc
    /\ NoRequest /\ NoBatch /\ NoCallers

Next ==
    \/ AnalyzeUrl
    \/ InitializeSkip \/ InitializeLaunch \/ InitializeFail
    \/ NewContext \/ NewPage \/ Goto \/ WaitForSelector \/ WaitNetworkIdle
    \/ TakeShot \/ ShotsReturn
    \/ EvalCheckStart \/ EvalCheck \/ EvalReturn
    \/ GetPerformanceMetrics \/ CloseAndReturn

Spec == Init /\ [][Next]_vars

\* takeScreenshots(page, analysisId, viewports) called on an open page
InitShots ==
    /\ pc = "screenshots" /\ entry = "takeScreenshots"
    /\ isInitialized = TRUE /\ browser = "browser"
    /\ context = "open"
    /\ options = NoOptions
    /\ viewports \in SeqsUpTo(ViewportPool, MaxViewports)
    /\ registry = EmptyRegistry
    /\ FreshLocals
    /\ faults = 0
    /\ calc = NoCalc
    /\ NoRequest /\ NoBatch /\ NoCallers

NextShots == TakeShot \/ ShotsReturn

SpecShots == InitShots /\ [][NextShots]_vars

\* performEvaluation(page, navigationTime) called on an open page
InitEval ==
    /\ pc = "evaluation" /\ entry = "performEvaluation"
    /\ isInitialized = TRUE /\ browser = "browser"
    /\ context = "open"
    /\ options = NoOptions /\ viewports = <<>>
    /\ registry \in Registries(MaxCriteria)
    /\ FreshLocals
    /\ faults = MaxCriteria
    /\ calc = NoCalc
    /\ NoRequest /\ NoBatch /\ NoCallers

NextEval == EvalCheckStart \/ EvalCheck \/ EvalReturn

SpecEval == InitEval /\ [][NextEval]_vars

\* performEvaluation called again after it returned
NextRuns == NextEval \/ PerformEvaluation

SpecRuns == InitEval /\ [][NextRuns]_vars

\* performEvaluation(page, navigationTime) over the registry the module exports
InitFull ==
    /\ pc = "evaluation" /\ entry = "performEvaluation"
    /\ isInitialized = TRUE /\ browser = "browser"
    /\ context = "open"
    /\ options = NoOptions /\ viewports = <<>>
    /\ registry = FullEvaluationCriteria
    /\ FreshLocals
    /\ faults = MaxFaults
    /\ calc = NoCalc
    /\ NoRequest /\ NoBatch /\ NoCallers

SpecFull == InitFull /\ [][NextEval]_vars

\* a POST /analyze request handled by the controller
InitRequest ==
    /\ pc = "idle" /\ entry = "postAnalyze"
    /\ \/ isInitialized = FALSE /\ browser = Null
       \/ isInitialized = TRUE /\ browser = "browser"
    /\ context = "none"
    /\ options = NoOptions /\ viewports = <<>>
    /\ registry \in FlowRegistries
    /\ FreshLocals
    /\ faults = FlowMaxCriteria
    /\ calc = NoCalc
    /\ NoRequest /\ NoBatch /\ NoCallers

NextRequest ==
    \/ PostAnalyze
    \/ InitializeSkip \/ InitializeLaunch \/ InitializeFail
    \/ NewContext \/ NewPage \/ Goto \/ WaitForSelector \/ WaitNetworkIdle
    \/ TakeShot \/ ShotsReturn
    \/ EvalCheckStart \/ EvalCheck \/ EvalReturn
    \/ GetPerformanceMetrics \/ CloseAndReturn
    \/ ServiceThrew \/ ServiceReturned

SpecRequest == InitRequest /\ [][NextRequest]_vars

\* a batch request handled by the controller
InitBatch ==
    /\ pc = "idle" /\ entry = "postBatch"
    /\ isInitialized = TRUE /\ browser = "browser"
    /\ context = "none"
    /\ options = NoOptions /\ viewports = <<>>
    /\ registry = EmptyRegistry
    /\ FreshLocals
    /\ faults = 0
    /\ calc = NoCalc
    /\ NoRequest /\ NoBatch /\ NoCallers

NextBatch == PostBatch \/ ChunkStart \/ RunSettle \/ ChunkDone \/ BatchRespond

SpecBatch == InitBatch /\ [][NextBatch]_vars

\* the service as constructed, used by several callers at once
InitService ==
    /\ pc = "idle" /\ entry = "service"
    /\ isInitialized = FALSE /\ browser = Null
    /\ context = "none"
    /\ options = NoOptions /\ viewports = <<>>
    /\ registry = EmptyRegistry
    /\ FreshLocals
    /\ faults = 0
    /\ calc = NoCalc
    /\ NoRequest /\ NoBatch
    /\ callers = [p \in Callers |-> [pc |-> "idle", target |-> Null]]
    /\ live = {} /\ launches = 0 /\ runs = 0 /\ raised = NoError

NextService ==
    \E p \in Callers :
        \/ CallInitialize(p)
        \/ LaunchResolves(p)
        \/ LaunchRejects(p)
        \/ AnalysisEnds(p)
        \/ CallClose(p)
        \/ CloseResolves(p)
        \/ CloseRejects(p)

SpecService == InitService /\ [][NextService]_vars

\* the score expression applied to the counters a run can end with
InitScore ==
    /\ pc = "score" /\ entry = "score"
    /\ isInitialized = FALSE /\ browser = Null
    /\ context = "none"
    /\ options = NoOptions /\ viewports = <<>>
    /\ registry = EmptyRegistry
    /\ FreshLocals
    /\ faults = 0
    /\ NoRequest /\ NoBatch /\ NoCallers
    /\ calc \in { [passed |-> p, total |-> t, score |-> 0, applied |-> FALSE] :
                  p \in 0..MaxTotal, t \in 0..MaxTotal }
    /\ calc.passed <= calc.total

NextScore == ComputeScore

SpecScore == InitScore /\ [][NextScore]_vars

----------------------------------------------------------------------------
(* Properties *)

\* the ids of the registry's criteria, in loop order
RegistryIds == [i \in 1..Len(Entries(registry)) |-> Entries(registry)[i].criterion.id]

\* the items and the summary performEvaluation returned
Items == analysis[1].items
SummaryOf == analysis[1].summary

EvaluationDone == pc = "done" /\ entry = "performEvaluation" /\ analysis # <<>>

\* C1: whatever checks throw, performEvaluation returns normally: no check
\* exception leaves it, a throwing check does not stop the loop, and every
\* criterion of the registry has had its check called, in order.
C1_ThrowingChecksNeverEscape ==
    /\ pc \in {"evaluation", "done"}
    /\ pc = "evaluation" /\ critIdx < Len(Entries(registry)) =>
          ENABLED EvalCheckStart \/ ENABLED EvalCheck
    /\ pc = "done" =>
          /\ analysis # <<>>
          /\ [i \in 1..Len(checkLog) |-> checkLog[i].id] = RegistryIds

C1_Witness_AllChecksThrew ==
    /\ EvaluationDone
    /\ Len(checkLog) >= 2
    /\ \A i \in 1..Len(checkLog) : checkLog[i].threw

\* C2: after performEvaluation the items list holds exactly one result for
\* every criterion of the registry, matched by id, and nothing else.
C2_OneResultPerCriterion ==
    EvaluationDone =>
        /\ Len(Items) = Len(Entries(registry))
        /\ \A j \in 1..Len(RegistryIds) :
              Cardinality({i \in 1..Len(Items) : Items[i].id = RegistryIds[j]}) = 1
        /\ \A i \in 1..Len(Items) : \E j \in 1..Len(RegistryIds) : Items[i].id = RegistryIds[j]

C2_Witness_MixedOutcomes ==
    /\ EvaluationDone
    /\ Len(Items) >= 2
    /\ \E i \in 1..Len(checkLog) : checkLog[i].threw
    /\ \E i \in 1..Len(checkLog) : ~checkLog[i].threw

\* C3: for every completed run, passed + failed = total = the number of items.
C3_SummaryCountsAddUp ==
    EvaluationDone =>
        /\ SummaryOf.passed + SummaryOf.failed = SummaryOf.total
        /\ SummaryOf.total = Len(Items)

C3_Witness_PassWarningError ==
    /\ EvaluationDone
    /\ \E i \in 1..Len(Items) : Items[i].status = "pass"
    /\ \E i \in 1..Len(Items) : Items[i].status = "warning"
    /\ \E i \in 1..Len(Items) : Items[i].status = "error"

\* C4: a call of analyzeUrl that created a browser context has closed it when
\* the call returns or throws.
C4_ContextClosedOnEveryExit ==
    pc \in {"returned", "thrown"} /\ context # "none" => context = "closed"

\* s is passed / total * 100 rounded to the nearest integer, a half rounding up
IsRoundedPercentage(s, passed, total) ==
    /\ 2 * total * s <= 200 * passed + total
    /\ 200 * passed + total < 2 * total * (s + 1)

C6_OnlyPassCountsAsPassed ==
    EvaluationDone =>
        /\ SummaryOf.passed = Cardinality({i \in 1..Len(Items) : Items[i].status = "pass"})
        /\ SummaryOf.failed = Cardinality({i \in 1..Len(Items) : Items[i].status # "pass"})
        /\ \A i \in 1..Len(Items) :
              Items[i].status = "error" =>
                  SummaryOf.score < Score(SummaryOf.passed + 1, SummaryOf.total)

C6_Witness_ErrorBesideWarning ==
    /\ EvaluationDone
    /\ \E i \in 1..Len(Items) : Items[i].status = "error"
    /\ \E i \in 1..Len(Items) : Items[i].status = "warning"
    /\ SummaryOf.passed >= 1

\* C7: every result with status error has checkTime 0 and a recommendation, and
\* a result has status error only when its criterion's check threw.
C7_ErrorResultsAreSynthesized ==
    \A i \in 1..Len(results) :
        results[i].status = "error" =>
            /\ results[i].checkTime = 0
            /\ Len(results[i].recommendations) > 0
            /\ \E j \in 1..Len(checkLog) :
                  checkLog[j].id = results[i].id /\ checkLog[j].threw

C7_Witness_ErrorBesideTimedResult ==
    /\ EvaluationDone
    /\ \E i \in 1..Len(results) : results[i].status = "error"
    /\ \E i \in 1..Len(results) : results[i].status # "error" /\ results[i].checkTime > 0

ShotsDone == pc = "done" /\ entry = "takeScreenshots"

FailedAttempts == {i \in 1..Len(shotLog) : shotLog[i].stage # "ok"}

\* the number of viewports asked for
RequestedCount == IF viewports = <<>> THEN 4 ELSE Len(viewports)

\* C8: when the resize, capture or store step of exactly one of N viewports
\* throws, takeScreenshots still returns N results, one with an error and the
\* other N - 1 populated, those after the failing viewport included.
C8_OneFailureLeavesOthersPopulated ==
    /\ pc \in {"screenshots", "done"}
    /\ ShotsDone /\ Cardinality(FailedAttempts) = 1 =>
          /\ Len(shotLog) = RequestedCount
          /\ Len(screenshots) = RequestedCount
          /\ \A i \in 1..Len(screenshots) :
                IF i \in FailedAttempts
                THEN screenshots[i].error # Undefined
                ELSE /\ screenshots[i].error = Undefined
                     /\ screenshots[i].gcs_url # Null
                     /\ screenshots[i].size_bytes = shotLog[i].size
                     /\ screenshots[i].size_bytes > 0

C8_Witness_FirstOfSeveralFailed ==
    /\ ShotsDone
    /\ Len(screenshots) >= 2
    /\ FailedAttempts = {1}
    /\ screenshots[Len(screenshots)].error = Undefined

C9_Defaults ==
    << [name |-> "mobile",  width |-> 375,  height |-> 667],
       [name |-> "tablet",  width |-> 768,  height |-> 1024],
       [name |-> "desktop", width |-> 1920, height |-> 1080],
       [name |-> "4k",      width |-> 3840, height |-> 2160] >>

\* C9: takeScreenshots returns one result per requested viewport, in the order
\* given, each with that viewport's name, width and height; an empty list
\* stands for mobile 375x667, tablet 768x1024, desktop 1920x1080, 4k 3840x2160.
C9_OneResultPerViewportInOrder ==
    ShotsDone =>
        LET requested == IF viewports = <<>> THEN C9_Defaults ELSE viewports
        IN  /\ Len(screenshots) = Len(requested)
            /\ \A i \in 1..Len(requested) :
                  /\ screenshots[i].viewport = requested[i].name
                  /\ screenshots[i].width = requested[i].width
                  /\ screenshots[i].height = requested[i].height

C9_Witness_DefaultsUsed ==
    /\ ShotsDone
    /\ viewports = <<>>
    /\ Len(screenshots) = 4
    /\ screenshots[4].viewport = "4k"

BadNavigation ==
    \/ response.kind = "null"
    \/ response.kind = "response" /\ (response.status < 200 \/ response.status > 299)

\* C10: when navigation gives no response or a non-2xx response, analyzeUrl
\* throws HTTP_ERROR or PAGE_LOAD_FAILED with status 502 before any screenshot
\* or check: no check is called, no result exists and nothing is returned.
C10_BadNavigationIsFatal ==
    BadNavigation =>
        /\ pc = "thrown"
        /\ error.isAppError
        /\ error.statusCode = 502
        /\ error.code = (IF response.kind = "null" THEN "PAGE_LOAD_FAILED" ELSE "HTTP_ERROR")
        /\ shotLog = <<>> /\ screenshots = <<>>
        /\ checkLog = <<>> /\ results = <<>> /\ analysis = <<>>
        /\ ret = <<>>

C10_Witness_Http500 ==
    /\ response.kind = "response" /\ response.status = 500
    /\ pc = "thrown"
    /\ error.code = "HTTP_ERROR"

\* C11: when navigation times out, analyzeUrl throws the timeout error (code
\* TIMEOUT_ERROR, status 504) and no criterion check has been called.
C11_NavigationTimeoutIsClassified ==
    navigation = "timeout" =>
        /\ pc = "thrown"
        /\ error.isAppError
        /\ error.code = "TIMEOUT_ERROR"
        /\ error.statusCode = 504
        /\ totalItems = 0 /\ inFlight = {} /\ checkLog = <<>>

CategoryIndex(category) == CHOOSE k \in 1..Len(Categories) : Categories[k] = category

PositionIn(category, id) ==
    CHOOSE k \in 1..Len(registry[category]) : registry[category][k].id = id

\* a comes before b in registry order
InRegistryOrder(a, b) ==
    \/ CategoryIndex(a.category) < CategoryIndex(b.category)
    \/ /\ a.category = b.category
       /\ PositionIn(a.category, a.id) < PositionIn(b.category, b.id)

\* C13: checks run one at a time in registry order: at most one check is in
\* flight, it was started only after every earlier check had settled, and the
\* results are in registry order (category order, then declaration order).
C13_ChecksRunOneAtATimeInOrder ==
    /\ Cardinality(inFlight) <= 1
    /\ critIdx + Cardinality(inFlight) = totalItems
    /\ Len(results) = critIdx
    /\ \A i \in inFlight :
          \A j \in 1..Len(results) :
              InRegistryOrder(results[j], [category |-> Entries(registry)[i].category,
                                          id |-> Entries(registry)[i].criterion.id])
    /\ \A i, j \in 1..Len(results) : i < j => InRegistryOrder(results[i], results[j])
    /\ EvaluationDone => \A i, j \in 1..Len(Items) : i < j => InRegistryOrder(Items[i], Items[j])

C13_Witness_CheckInFlightInLaterCategory ==
    /\ inFlight # {}
    /\ Len(results) >= 2
    /\ results[1].category # results[2].category
    /\ \E i \in inFlight : Entries(registry)[i].category # results[2].category

\* C16: when the mobile-responsiveness check (use-001) has finished, the page
\* viewport is the one the check started with, and every later check starts at
\* that viewport.
C16_ViewportRestoredAfterMobileCheck ==
    \A i \in 1..Len(checkLog) :
        checkLog[i].id = "use-001" =>
            /\ checkLog[i].after.viewport = checkLog[i].before.viewport
            /\ \A j \in (i + 1)..Len(checkLog) :
                  checkLog[j].before.viewport = checkLog[i].before.viewport

\* C17: no check other than use-001 changes the page: its scripts, styles,
\* loads and viewport are after the check what they were before it.
C17_OtherChecksLeavePageUnchanged ==
    \A i \in 1..Len(checkLog) :
        checkLog[i].id # "use-001" => checkLog[i].after = checkLog[i].before

\* C18: a completed run over the merged registry evaluates 67 criteria:
\* accessibility 15, performance 18, seo 12, security 10, usability 12.
C18_RegistryHolds67Criteria ==
    EvaluationDone /\ registry = FullEvaluationCriteria =>
        /\ SummaryOf.total = 67
        /\ Len(Items) = 67
        /\ SummaryOf.categories["accessibility"] = 15
        /\ SummaryOf.categories["performance"] = 18
        /\ SummaryOf.categories["seo"] = 12
        /\ SummaryOf.categories["security"] = 10
        /\ SummaryOf.categories["usability"] = 12

\* the result of a call that returned is complete
FullResult ==
    /\ ret # <<>>
    /\ ret[1].success
    /\ Len(ret[1].screenshots) = Len(TargetViewports(viewports))
    /\ Len(ret[1].analysis.items) = Len(Entries(registry))

\* the call went through screenshots, evaluation and metrics
AllPhasesRan ==
    /\ Len(shotLog) = Len(TargetViewports(viewports))
    /\ analysis # <<>>
    /\ performance # <<>>

AfterWaits == {"screenshots", "evaluation", "metrics", "closeContext", "returned", "thrown"}

\* C19: a failed wait for the waitFor selector does not end the run: the call
\* goes on to screenshots and evaluation and what it returns is complete (it can
\* still throw only after all phases, when closing the context fails).
C19_SelectorWaitFailureIsNotFatal ==
    waits.selector = "failed" =>
        /\ pc \in AfterWaits \cup {"networkIdle"}
        /\ pc = "thrown" => AllPhasesRan
        /\ pc = "returned" => FullResult

C19_Witness_ReturnedAfterFailedSelectorWait ==
    /\ waits.selector = "failed"
    /\ pc = "returned"
    /\ FullResult
    /\ Len(ret[1].analysis.items) >= 1

\* C20: a failed network-idle wait never fails the run: the step leaves the
\* call exactly where a successful wait leaves it, and the call goes on to
\* screenshots and evaluation.
C20_IdleWaitFailureIsNotFatal ==
    /\ [](waits.idle = "failed" =>
              /\ pc \in AfterWaits
              /\ pc = "thrown" => AllPhasesRan
              /\ pc = "returned" => FullResult)
    /\ [][pc = "networkIdle" =>
              /\ pc' = "screenshots"
              /\ UNCHANGED <<error, ret, context, pageViewport, pageDom, screenshots,
                             results, analysis, options, viewports, registry>>]_vars

C20_Witness_ReturnedAfterFailedIdleWait ==
    /\ waits.idle = "failed"
    /\ pc = "returned"
    /\ FullResult
    /\ Len(ret[1].screenshots) >= 1

\* the request asks for options.timeout = 3000 and is valid otherwise
TimeoutRequest ==
    /\ request # <<>>
    /\ request[1].timeout = 3000
    /\ request[1].url.present /\ request[1].url.scheme = "https"

\* C12: a POST /analyze request with options.timeout = 3000 passes validation
\* and reaches navigation, and when the page is slower than that the answer is
\* HTTP 504 with code TIMEOUT_ERROR.
C12_ShortTimeoutReachesNavigation ==
    TimeoutRequest /\ pc = "replied" =>
        /\ reply[1].code # "VALIDATION_ERROR"
        /\ navigation # "none"
        /\ navigation = "timeout" => reply[1].status = 504 /\ reply[1].code = "TIMEOUT_ERROR"

BatchDone == entry = "postBatch" /\ pc = "replied" /\ reply[1].status = 200

\* the number of entries of the results or errors list for url i
Recorded(list, i) == Cardinality({k \in 1..Len(list) : list[k].url = i})

\* C15: in analyzeBatch a failing url does not cancel or skip the others:
\* every url is passed to analyzeUrl exactly once and ends in exactly one of
\* results and errors, so successful + failed = total = the number of urls.
C15_EveryUrlRunsOnceAndIsRecorded ==
    /\ \A i \in 1..Len(calls) : calls[i] <= 1
    /\ \A i \in 1..Len(calls) :
          Recorded(batchResults, i) + Recorded(batchErrors, i) <= calls[i]
    /\ BatchDone =>
          /\ \A i \in 1..urlCount :
                /\ calls[i] = 1
                /\ Recorded(reply[1].results, i) + Recorded(reply[1].errors, i) = 1
          /\ reply[1].summary.successful + reply[1].summary.failed = reply[1].summary.total
          /\ reply[1].summary.total = request[1].urls

C15_Witness_FailureBesideSuccesses ==
    /\ BatchDone
    /\ urlCount > 5
    /\ Len(reply[1].errors) >= 1
    /\ Len(reply[1].results) >= 1
    /\ reply[1].errors[1].url < reply[1].results[Len(reply[1].results)].url

----------------------------------------------------------------------------
(* The report step of POST /analyze *)

\* the controller answered a request whose analyzeUrl call returned
AnsweredAfterAnalysis == entry = "postAnalyze" /\ pc = "replied" /\ ret # <<>>

\* C21: once analyzeUrl has returned, POST /analyze answers 200 with
\* success true and the whole analysis whether or not the report could be
\* generated; a failed report only leaves reportUrl null, and with
\* options.generateReport false no report generation is attempted
C21_ReportFailureIsNotFatal ==
    AnsweredAfterAnalysis =>
        /\ reply[1].status = 200 /\ reply[1].success
        /\ reply[1].analysis.summary = ret[1].analysis.summary
        /\ \A c \in CategorySet :
              reply[1].analysis.categories[c] =
                 SelectSeq(ret[1].analysis.items, LAMBDA item : item.category = c)
        /\ Len(reply[1].screenshots) = Len(ret[1].screenshots)
        /\ reply[1].performance = ret[1].performance
        /\ reportLog = "failed" => reply[1].reportUrl = Null
        /\ reportLog = "generated" => reply[1].reportUrl = ReportUrl
        /\ request[1].generateReport <=> reportLog # "none"
        /\ ~request[1].generateReport => reply[1].reportUrl = Null

C21_Witness_AnsweredAfterFailedReport ==
    /\ AnsweredAfterAnalysis
    /\ reportLog = "failed"
    /\ reply[1].status = 200 /\ reply[1].reportUrl = Null
    /\ Len(ret[1].analysis.items) >= 1

----------------------------------------------------------------------------
(* The shape of a ScreenshotResult *)

\* a success entry: a storage reference, the image's length, no error
IsSuccessEntry(shot, size) ==
    shot.gcs_url # Null /\ shot.size_bytes = size /\ shot.error = Undefined

\* a failure entry: an error, no storage reference, zero bytes
IsFailureEntry(shot) ==
    shot.error # Undefined /\ shot.gcs_url = Null /\ shot.size_bytes = 0

\* C22: every entry of the screenshots array is a success entry (reference
\* set, size_bytes the length of the captured image, no error) exactly when
\* resize, capture and upload all succeeded, and a failure entry (error set,
\* reference null, size_bytes 0) otherwise, a failed upload included
C22_ScreenshotResultIsSuccessOrFailure ==
    /\ Len(screenshots) = Len(shotLog)
    /\ \A i \in 1..Len(screenshots) :
          /\ shotLog[i].stage = "ok" =>
                IsSuccessEntry(screenshots[i], shotLog[i].size)
          /\ shotLog[i].stage # "ok" => IsFailureEntry(screenshots[i])
          /\ shotLog[i].stage = "upload" =>
                /\ screenshots[i].error = "Screenshot upload failed"
                /\ pc \in {"screenshots", "done"}

C22_Witness_UploadFailedBesideSuccess ==
    /\ ShotsDone
    /\ \E i, j \in 1..Len(screenshots) :
          /\ shotLog[i].stage = "upload" /\ IsFailureEntry(screenshots[i])
          /\ shotLog[j].stage = "ok" /\ screenshots[j].size_bytes = 65536

----------------------------------------------------------------------------
(* No retries *)

\* C23: within one analyzeUrl call each criterion's check is called once and
\* each requested viewport is attempted once, whatever the outcome: the calls
\* made so far are those of the loop iterations begun, no criterion id
\* occurs twice among them, the attempts follow the requested viewports one
\* to one, and a returned call has made exactly one call per criterion and
\* one attempt per viewport
C23_NothingIsRetried ==
    /\ totalItems = Len(checkLog) + Cardinality(inFlight)
    /\ totalItems <= Len(Entries(registry))
    /\ \A i, j \in 1..Len(checkLog) : checkLog[i].id = checkLog[j].id => i = j
    /\ Len(shotLog) = vpIdx
    /\ vpIdx <= Len(TargetViewports(viewports))
    /\ \A i \in 1..Len(shotLog) : shotLog[i].viewport = TargetViewports(viewports)[i]
    /\ pc = "returned" =>
          /\ \A k \in 1..Len(RegistryIds) :
                Cardinality({i \in 1..Len(checkLog) : checkLog[i].id = RegistryIds[k]}) = 1
          /\ Len(shotLog) = Len(TargetViewports(viewports))

C23_Witness_ReturnedAfterFailedAttempts ==
    /\ entry = "analyzeUrl" /\ pc = "returned"
    /\ \E i \in 1..Len(shotLog) : shotLog[i].stage # "ok"
    /\ \E i \in 1..Len(checkLog) : checkLog[i].threw

----------------------------------------------------------------------------
(* Private addresses *)

\* the server runs in production and the request names a local or private host
PrivateRequest ==
    /\ entry = "postAnalyze" /\ request # <<>>
    /\ request[1].nodeEnv = "production"
    /\ request[1].url.present
    /\ \/ request[1].url.host = <<"localhost">>
       \/ request[1].url.host[1] \in {"127", "10"}
       \/ request[1].url.host[1] = "192" /\ request[1].url.host[2] = "168"
       \/ request[1].url.host[1] = "172"
             /\ request[1].url.host[2] \in {"16", "17", "18", "19", "20", "21", "22",
                                            "23", "24", "25", "26", "27", "28", "29",
                                            "30", "31"}

----------------------------------------------------------------------------
(* The summary as a function of the result list *)

\* the summary computed from a list of results and from nothing else
SummaryFromItems(items) ==
    LET passed == Cardinality({i \in 1..Len(items) : items[i].status = "pass"})
    IN  [total  |-> Len(items),
         passed |-> passed,
         failed |-> Len(items) - passed,
         score  |-> IF Len(items) = 0 THEN 0 ELSE Score(passed, Len(items)),
         categories |->
            [c \in CategorySet |->
                Cardinality({i \in 1..Len(items) : items[i].category = c})]]

----------------------------------------------------------------------------
(* What analyzeUrl throws *)

\* the message of the error raised inside the call has this word in it
RaisedHas(word) == \E i \in 1..Len(raised.message) : raised.message[i] = word

----------------------------------------------------------------------------
(* The order of the phases *)

\* C27: within one analyzeUrl call the first check is called only after every
\* requested viewport has been attempted, and every attempt saw the page as
\* it was loaded, with no script or style injected and no reload by a check
C27_ScreenshotsFinishBeforeChecksStart ==
    /\ pc = "screenshots" => totalItems = 0 /\ checkLog = <<>> /\ inFlight = {}
    /\ totalItems > 0 =>
          /\ pc # "screenshots"
          /\ Len(shotLog) = Len(TargetViewports(viewports))
          /\ Len(screenshots) = Len(TargetViewports(viewports))
    /\ \A i \in 1..Len(shotLog) : shotLog[i].dom = FreshDom

C27_Witness_CheckChangedPageAfterShots ==
    /\ entry = "analyzeUrl" /\ pc = "returned"
    /\ Len(shotLog) >= 1 /\ shotLog[1].stage = "ok"
    /\ \E i \in 1..Len(checkLog) : checkLog[i].after # checkLog[i].before
    /\ pageDom # FreshDom

----------------------------------------------------------------------------
(* The singleton browser *)

\* C28: whatever the interleaving of concurrent analyzeUrl calls, at most one
\* launched browser process exists and it is the one the service's browser
\* field refers to
C28_AtMostOneBrowserAndItIsReferenced ==
    /\ Cardinality(live) <= 1
    /\ \A b \in live : b = browser

\* C29: between any two asynchronous steps of initialize(), analyzeUrl and
\* close(), isInitialized is true exactly when the browser field is not null
C29_InitializedExactlyWhenBrowserSet ==
    isInitialized <=> browser # Null

C29_Witness_ClosedWhileAnotherLaunches ==
    /\ entry = "service"
    /\ launches >= 1
    /\ browser = Null /\ ~isInitialized
    /\ \E p \in Callers : callers[p].pc = "launching"
    /\ \E p \in Callers : callers[p].pc = "closing"

----------------------------------------------------------------------------
(* The category counts *)

\* C30: in the summary of a completed run the counts of the five categories
\* add up to summary.total, and the count of each category is the number of
\* criteria the registry holds under it
C30_CategoryCountsMatchRegistry ==
    EvaluationDone =>
        /\ SummaryOf.categories["accessibility"] + SummaryOf.categories["performance"]
              + SummaryOf.categories["seo"] + SummaryOf.categories["security"]
              + SummaryOf.categories["usability"] = SummaryOf.total
        /\ \A c \in CategorySet : SummaryOf.categories[c] = Len(registry[c])
        /\ DOMAIN SummaryOf.categories = CategorySet

C30_Witness_CountsAfterThrownCheck ==
    /\ EvaluationDone
    /\ SummaryOf.total = 3
    /\ SummaryOf.categories["accessibility"] = 2
    /\ SummaryOf.categories["security"] = 1
    /\ \E i \in 1..Len(Items) : Items[i].status = "error"

====
